---- MODULE Spec2Model ----
(***************************************************************************)
(* gocrete: the template application and module composition engine.        *)
(*                                                                         *)
(* State: the destination directory tree, the embedded template store, the *)
(* module registry held by the Engine, and the position of the command     *)
(* that is running (init or add).  Each stage of Engine.InitProject and    *)
(* Engine.AddModule is one action; the overlay appliers, the renderer, the *)
(* option validation and the registry are operators computed as the code   *)
(* computes them.                                                          *)
(*                                                                         *)
(* Representation.                                                         *)
(*   name     a file name, as the sequence of its dot-separated segments:  *)
(*            "main.go.tmpl" is <<"main","go","tmpl">>                     *)
(*   path     a slash-separated path, as the sequence of its names         *)
(*   bytes    a sequence of tokens; <<"text", s>> is literal text, the     *)
(*            other tokens are text/template actions                       *)
(*   error    the chain of wrapped messages, outermost first; <<>> is nil  *)
(***************************************************************************)
EXTENDS Integers, Sequences, FiniteSets, TLC

VARIABLES store, registry, calls, fs, fs0, cmd, pc, opts, ctx, mod, err, log, got, ncall

vars == <<store, registry, calls, fs, fs0, cmd, pc, opts, ctx, mod, err, log, got, ncall>>

(***************************************************************************)
(* Bounds of the model.                                                    *)
(***************************************************************************)
MaxCalls == 2

(***************************************************************************)
(* Errors.                                                                 *)
(***************************************************************************)
NoErr == <<>>

E(msg, arg, allowed) == <<[msg |-> msg, arg |-> arg, allowed |-> allowed]>>

Errorf(msg) == E(msg, <<>>, {})

Wrap(msg, e) == Errorf(msg) \o e

(***************************************************************************)
(* Names and paths.                                                        *)
(***************************************************************************)
HasSuffixTmpl(path) ==
    /\ Len(path) > 0
    /\ LET n == path[Len(path)] IN Len(n) >= 2 /\ n[Len(n)] = "tmpl"

TrimSuffixTmpl(path) ==
    IF HasSuffixTmpl(path)
    THEN LET n == path[Len(path)]
         IN  [path EXCEPT ![Len(path)] = SubSeq(n, 1, Len(n) - 1)]
    ELSE path

Dir(path) == IF Len(path) = 0 THEN <<>> ELSE SubSeq(path, 1, Len(path) - 1)

Prefixes(path) == {SubSeq(path, 1, i) : i \in 1..Len(path)}

(***************************************************************************)
(* The destination tree.  root is "absent", "dir" or "file"; files maps    *)
(* each regular file beneath the root to its bytes; dirs is the set of     *)
(* directories beneath the root.                                           *)
(***************************************************************************)
EmptyFiles == [p \in {} |-> <<>>]

AbsentFS == [root |-> "absent", files |-> EmptyFiles, dirs |-> {}]

EmptyDirFS == [root |-> "dir", files |-> EmptyFiles, dirs |-> {}]

(* RemoveAll that deletes nothing *)
RemoveAllNothing(f) == f

RemoveAll(f) == AbsentFS

MkdirAll(f, path) ==
    IF f.root = "file" \/ \E q \in Prefixes(path) : q \in DOMAIN f.files
    THEN [fs |-> f, ok |-> FALSE]
    ELSE [fs |-> [f EXCEPT !.root = "dir", !.dirs = @ \cup Prefixes(path)],
          ok |-> TRUE]

(* osWriteFile that leaves an existing file's bytes in place *)
osWriteFileKeepExisting(f, path, content) ==
    IF \/ f.root # "dir"
       \/ Len(path) = 0
       \/ path \in f.dirs
       \/ (Len(path) > 1 /\ Dir(path) \notin f.dirs)
    THEN [fs |-> f, ok |-> FALSE]
    ELSE [fs |-> [f EXCEPT !.files = @ @@ (path :> content)], ok |-> TRUE]

(* osWriteFile that refuses to write over an existing file *)
osWriteFileExclusive(f, path, content) ==
    IF \/ f.root # "dir"
       \/ Len(path) = 0
       \/ path \in f.dirs
       \/ path \in DOMAIN f.files
       \/ (Len(path) > 1 /\ Dir(path) \notin f.dirs)
    THEN [fs |-> f, ok |-> FALSE]
    ELSE [fs |-> [f EXCEPT !.files = (path :> content) @@ @], ok |-> TRUE]

osWriteFile(f, path, content) ==
    IF \/ f.root # "dir"
       \/ Len(path) = 0
       \/ path \in f.dirs
       \/ (Len(path) > 1 /\ Dir(path) \notin f.dirs)
    THEN [fs |-> f, ok |-> FALSE]
    ELSE [fs |-> [f EXCEPT !.files = (path :> content) @@ @], ok |-> TRUE]

okResult(f) == [fs |-> f, err |-> NoErr]

mkdirResult(d, path) ==
    [fs |-> d.fs, err |-> IF d.ok THEN NoErr ELSE E("mkdir", path, {})]

writeResult(w, path) ==
    [fs |-> w.fs, err |-> IF w.ok THEN NoErr ELSE E("write", path, {})]

writeAfterMkdir(d, path, content) ==
    IF ~d.ok
    THEN mkdirResult(d, path)
    ELSE writeResult(osWriteFile(d.fs, path, content), path)

(* os.MkdirAll(filepath.Dir(path)) followed by os.WriteFile(path) *)
mkdirThenWrite(f, path, content) ==
    writeAfterMkdir(MkdirAll(f, Dir(path)), path, content)

(* modules.WriteFile *)
WriteFile(f, path, content) == mkdirThenWrite(f, path, content)

(* if err != nil { return fmt.Errorf(msg + ": %w", err) } *)
wrapped(msg, r) ==
    [fs |-> r.fs, err |-> IF r.err = NoErr THEN NoErr ELSE Wrap(msg, r.err)]

(***************************************************************************)
(* text/template, as the two renderers use it: Parse, then Execute against *)
(* a map with the default missing-key option.  A value of the map is       *)
(* [t |-> "str" | "bool", v |-> its printed form].                         *)
(*   <<"text", s>>               literal text                              *)
(*   <<"var", key>>              {{.key}}                                  *)
(*   <<"if", key, body>>         {{if .key}}body{{end}}                    *)
(*   <<"ifeq", key, val, body>>  {{if eq .key "val"}}body{{end}}           *)
(*   <<"chain", key, field>>     {{.key.field}}                            *)
(*   <<"bad">>                   an unclosed action                        *)
(***************************************************************************)
Str(s) == [t |-> "str", v |-> s]

Bool(b) == [t |-> "bool", v |-> IF b THEN "true" ELSE "false"]

Text(s) == <<"text", s>>

NoValue == "<no value>"

Parse(content) == \A i \in 1..Len(content) : content[i][1] # "bad"

(* IsTrue that takes every non-empty printed form for true *)
IsTrueWhenPrinted(data, key) ==
    key \in DOMAIN data /\ data[key].v # ""

IsTrue(data, key) ==
    /\ key \in DOMAIN data
    /\ IF data[key].t = "bool" THEN data[key].v = "true" ELSE data[key].v # ""

MissingKeyOutput(key) == <<Text(NoValue)>>

EvalNode(node, data) ==
    CASE node[1] = "text" -> [out |-> <<node>>, ok |-> TRUE]
      [] node[1] = "var" ->
            IF node[2] \in DOMAIN data
            THEN [out |-> <<Text(data[node[2]].v)>>, ok |-> TRUE]
            ELSE [out |-> MissingKeyOutput(node[2]), ok |-> TRUE]
      [] node[1] = "if" ->
            [out |-> IF IsTrue(data, node[2]) THEN <<Text(node[3])>> ELSE <<>>,
             ok |-> TRUE]
      [] node[1] = "ifeq" ->
            IF node[2] \notin DOMAIN data
            THEN [out |-> <<>>, ok |-> TRUE]
            ELSE IF data[node[2]].t # "str"
            THEN [out |-> <<>>, ok |-> FALSE]
            ELSE [out |-> IF data[node[2]].v = node[3]
                          THEN <<Text(node[4])>> ELSE <<>>,
                  ok |-> TRUE]
      [] OTHER -> [out |-> <<>>, ok |-> FALSE]

RECURSIVE Execute(_, _, _, _)
RECURSIVE executeNode(_, _, _, _, _)
executeNode(r, content, data, i, buf) ==
    IF r.ok
    THEN Execute(content, data, i + 1, buf \o r.out)
    ELSE [out |-> <<>>, err |-> Errorf("template: execute")]

Execute(content, data, i, buf) ==
    IF i > Len(content)
    THEN [out |-> buf, err |-> NoErr]
    ELSE executeNode(EvalNode(content[i], data), content, data, i, buf)

(* Engine.renderTemplate *)
renderTemplate(content, data) ==
    IF ~Parse(content)
    THEN [out |-> <<>>, err |-> Errorf("template: parse")]
    ELSE Execute(content, data, 1, <<>>)

(* modules.renderTemplate *)
modRenderTemplate(content, data) ==
    IF ~Parse(content)
    THEN [out |-> <<>>, err |-> Errorf("template: parse")]
    ELSE Execute(content, data, 1, <<>>)

(***************************************************************************)
(* The overlay appliers.  A bundle of the store is the sequence of its     *)
(* entries in fs.WalkDir order, the root excluded:                         *)
(* [path, isDir, content].                                                 *)
(***************************************************************************)
renderFailed(f, e, r) ==
    [fs |-> f, err |-> E("failed to render template", e.path, {}) \o r.err]

(* engineWriteRendered writing under the source name, marker included *)
engineWriteRenderedKeepName(r, f, e) ==
    IF r.err # NoErr
    THEN renderFailed(f, e, r)
    ELSE mkdirThenWrite(f, e.path, r.out)

engineWriteRendered(r, f, e) ==
    IF r.err # NoErr
    THEN renderFailed(f, e, r)
    ELSE mkdirThenWrite(f, TrimSuffixTmpl(e.path), r.out)

(* the callback Engine.applyTemplate hands to fs.WalkDir *)
engineWalkFn(f, e, data) ==
    IF e.isDir
    THEN mkdirResult(MkdirAll(f, e.path), e.path)
    ELSE IF HasSuffixTmpl(e.path)
    THEN engineWriteRendered(renderTemplate(e.content, data), f, e)
    ELSE mkdirThenWrite(f, e.path, e.content)

RECURSIVE engineWalk(_, _, _, _)
RECURSIVE engineWalkNext(_, _, _, _)
engineWalkNext(r, entries, i, data) ==
    IF r.err # NoErr THEN r ELSE engineWalk(entries, i + 1, r.fs, data)

engineWalk(entries, i, f, data) ==
    IF i > Len(entries)
    THEN okResult(f)
    ELSE engineWalkNext(engineWalkFn(f, entries[i], data), entries, i, data)

applyTemplate(templatePath, f, data) ==
    IF templatePath \notin DOMAIN store
    THEN [fs |-> f, err |-> E("open", <<>>, {templatePath})]
    ELSE engineWalk(store[templatePath], 1, f, data)

moduleWriteRendered(r, f, e) ==
    IF r.err # NoErr
    THEN renderFailed(f, e, r)
    ELSE mkdirThenWrite(f, TrimSuffixTmpl(e.path), r.out)

(* the callback modules.ApplyModuleTemplate hands to fs.WalkDir *)
moduleWalkFn(f, e, data) ==
    IF e.isDir
    THEN mkdirResult(MkdirAll(f, e.path), e.path)
    ELSE IF HasSuffixTmpl(e.path)
    THEN moduleWriteRendered(modRenderTemplate(e.content, data), f, e)
    ELSE mkdirThenWrite(f, e.path, e.content)

RECURSIVE moduleWalk(_, _, _, _)
RECURSIVE moduleWalkNext(_, _, _, _)
(* moduleWalkNext that walks on after an error *)
moduleWalkNextOnError(r, entries, i, data) ==
    moduleWalk(entries, i + 1, r.fs, data)

moduleWalkNext(r, entries, i, data) ==
    IF r.err # NoErr THEN r ELSE moduleWalk(entries, i + 1, r.fs, data)

moduleWalk(entries, i, f, data) ==
    IF i > Len(entries)
    THEN okResult(f)
    ELSE moduleWalkNext(moduleWalkFn(f, entries[i], data), entries, i, data)

ApplyModuleTemplate(templatePath, f, data) ==
    IF templatePath \notin DOMAIN store
    THEN [fs |-> f, err |-> E("open", <<>>, {templatePath})]
    ELSE moduleWalk(store[templatePath], 1, f, data)

(***************************************************************************)
(* Modules.                                                                *)
(***************************************************************************)
Nil == "nil"

MigrationsDir == << <<"migrations">> >>

GitkeepPath == MigrationsDir \o << <<"", "gitkeep">> >>

InitialMigrationPath == MigrationsDir \o << <<"00001_initial", "sql">> >>

MigrationSQL == <<Text("-- +goose Up")>>

SpecFilePath == << <<"api">>, <<"openapi", "yaml">> >>

SpecContent(projectName) == <<Text("title: "), Text(projectName), Text(" API")>>

MakefilePath == << <<"Makefile">> >>

MakefileContent == <<Text(".PHONY: generate")>>

postgresAfterGitkeep(k) ==
    IF k.err # NoErr
    THEN k
    ELSE WriteFile(k.fs, InitialMigrationPath, MigrationSQL)

(* postgresAfterTemplate that writes the migration files unconditionally *)
postgresAfterTemplateAlways(t, c) ==
    IF t.err # NoErr
    THEN wrapped("failed to apply postgres template", t)
    ELSE postgresAfterGitkeep(WriteFile(t.fs, GitkeepPath, <<>>))

postgresAfterTemplate(t, c) ==
    IF t.err # NoErr
    THEN wrapped("failed to apply postgres template", t)
    ELSE IF c.Options.Migrations = "goose"
    THEN postgresAfterGitkeep(WriteFile(t.fs, GitkeepPath, <<>>))
    ELSE okResult(t.fs)

PostgresApply(c, f) ==
    postgresAfterTemplate(
        ApplyModuleTemplate("files/db/postgres", f, c.TemplateData), c)

(* MongoApply that writes the migration files when goose is selected *)
MongoApplyWithMigrations(c, f) ==
    postgresAfterTemplate(
        ApplyModuleTemplate("files/db/mongo", f, c.TemplateData), c)

MongoApply(c, f) ==
    wrapped("failed to apply mongo template",
            ApplyModuleTemplate("files/db/mongo", f, c.TemplateData))

openAPIGenAfterSpec(s) ==
    IF s.err # NoErr
    THEN s
    ELSE WriteFile(s.fs, MakefilePath, MakefileContent)

openAPIGenAfterTemplate(t, c) ==
    IF t.err # NoErr
    THEN wrapped("failed to apply openapi gen template", t)
    ELSE openAPIGenAfterSpec(
             IF c.Options.SpecPath # ""
             THEN WriteFile(t.fs, SpecFilePath, SpecContent(c.Options.ProjectName))
             ELSE okResult(t.fs))

OpenAPIGenApply(c, f) ==
    openAPIGenAfterTemplate(
        ApplyModuleTemplate("files/openapi/gen", f, c.TemplateData), c)

OpenAPIManualApply(c, f) ==
    wrapped("failed to apply openapi manual template",
            ApplyModuleTemplate("files/openapi/manual", f, c.TemplateData))

DockerApply(c, f) ==
    wrapped("failed to apply docker template",
            ApplyModuleTemplate("files/docker", f, c.TemplateData))

Modules == {"Postgres", "Mongo", "OpenAPIGen", "OpenAPIManual", "Docker"}

(* mod.Apply(ctx): the dispatch through the Module interface *)
Apply(m, c, f) ==
    CASE m = "Postgres" -> PostgresApply(c, f)
      [] m = "Mongo" -> MongoApply(c, f)
      [] m = "OpenAPIGen" -> OpenAPIGenApply(c, f)
      [] m = "OpenAPIManual" -> OpenAPIManualApply(c, f)
      [] m = "Docker" -> DockerApply(c, f)

(***************************************************************************)
(* The registry: category -> name -> module.                               *)
(***************************************************************************)
EmptyRegistry == [c \in {} |-> [n \in {} |-> Nil]]

(* Register that keeps the module already registered under the key *)
RegisterKeepFirst(r, category, name, module) ==
    IF category \notin DOMAIN r
    THEN (category :> (name :> module)) @@ r
    ELSE [r EXCEPT ![category] = @ @@ (name :> module)]

Register(r, category, name, module) ==
    IF category \notin DOMAIN r
    THEN (category :> (name :> module)) @@ r
    ELSE [r EXCEPT ![category] = (name :> module) @@ @]

(* GetModule that falls back to some module of the category *)
GetModuleDefault(r, category, name) ==
    IF category \in DOMAIN r
    THEN IF name \in DOMAIN r[category]
         THEN r[category][name]
         ELSE IF DOMAIN r[category] = {}
         THEN Nil
         ELSE r[category][CHOOSE n \in DOMAIN r[category] : TRUE]
    ELSE Nil

GetModule(r, category, name) ==
    IF category \in DOMAIN r
    THEN IF name \in DOMAIN r[category] THEN r[category][name] ELSE Nil
    ELSE Nil

Call(category, name, module) ==
    [category |-> category, name |-> name, module |-> module]

RECURSIVE RegisterAll(_, _)
RegisterAll(r, cs) ==
    IF Len(cs) = 0
    THEN r
    ELSE RegisterAll(Register(r, cs[1].category, cs[1].name, cs[1].module),
                     Tail(cs))

(* the Register calls NewRegistry makes, in order *)
(* NewRegistryCalls without the registration of the mongo module *)
NewRegistryCallsNoMongo ==
    << Call("db", "postgres", "Postgres"),
       Call("openapi", "gen", "OpenAPIGen"),
       Call("openapi", "manual", "OpenAPIManual"),
       Call("docker", "", "Docker") >>

NewRegistryCalls ==
    << Call("db", "postgres", "Postgres"),
       Call("db", "mongo", "Mongo"),
       Call("openapi", "gen", "OpenAPIGen"),
       Call("openapi", "manual", "OpenAPIManual"),
       Call("docker", "", "Docker") >>

NewRegistry == RegisterAll(EmptyRegistry, NewRegistryCalls)

(***************************************************************************)
(* Option validation.                                                      *)
(***************************************************************************)
validRouters == {"chi", "gin", "fiber"}

validDatabases == {"none", "postgres", "mongo"}

validOpenAPI == {"none", "gen", "manual"}

validMigrations == {"none", "goose"}

(* validateInitOptions without its last check *)
validateInitOptionsNoMigrations(o) ==
    IF o.Router \notin validRouters
    THEN E("invalid router", << <<o.Router>> >>, validRouters)
    ELSE IF o.Database \notin validDatabases
    THEN E("invalid database", << <<o.Database>> >>, validDatabases)
    ELSE IF o.OpenAPI \notin validOpenAPI
    THEN E("invalid openapi", << <<o.OpenAPI>> >>, validOpenAPI)
    ELSE NoErr

(* validateInitOptions with the database checked before the router *)
validateInitOptionsDatabaseFirst(o) ==
    IF o.Database \notin validDatabases
    THEN E("invalid database", << <<o.Database>> >>, validDatabases)
    ELSE IF o.Router \notin validRouters
    THEN E("invalid router", << <<o.Router>> >>, validRouters)
    ELSE IF o.OpenAPI \notin validOpenAPI
    THEN E("invalid openapi", << <<o.OpenAPI>> >>, validOpenAPI)
    ELSE IF o.Migrations \notin validMigrations
    THEN E("invalid migrations", << <<o.Migrations>> >>, validMigrations)
    ELSE NoErr

validateInitOptions(o) ==
    IF o.Router \notin validRouters
    THEN E("invalid router", << <<o.Router>> >>, validRouters)
    ELSE IF o.Database \notin validDatabases
    THEN E("invalid database", << <<o.Database>> >>, validDatabases)
    ELSE IF o.OpenAPI \notin validOpenAPI
    THEN E("invalid openapi", << <<o.OpenAPI>> >>, validOpenAPI)
    ELSE IF o.Migrations \notin validMigrations
    THEN E("invalid migrations", << <<o.Migrations>> >>, validMigrations)
    ELSE NoErr

(***************************************************************************)
(* go.mod read-back.  A line is the sequence of its tokens; Text(" ") and  *)
(* Text("\t") are white space, Text("\n") ends a line.                     *)
(***************************************************************************)
GoModPath == << <<"go", "mod">> >>

NL == Text("\n")

IsSpace(tok) == tok \in {Text(" "), Text("\t")}

RECURSIVE Split(_, _, _)
Split(content, i, cur) ==
    IF i > Len(content)
    THEN <<cur>>
    ELSE IF content[i] = NL
    THEN <<cur>> \o Split(content, i + 1, <<>>)
    ELSE Split(content, i + 1, Append(cur, content[i]))

RECURSIVE TrimSpace(_)
TrimSpace(line) ==
    IF Len(line) = 0
    THEN line
    ELSE IF IsSpace(line[1])
    THEN TrimSpace(Tail(line))
    ELSE IF IsSpace(line[Len(line)])
    THEN TrimSpace(SubSeq(line, 1, Len(line) - 1))
    ELSE line

HasPrefixModule(line) ==
    Len(line) >= 2 /\ line[1] = Text("module") /\ line[2] = Text(" ")

TrimPrefixModule(line) ==
    IF HasPrefixModule(line) THEN SubSeq(line, 3, Len(line)) ELSE line

RECURSIVE Join(_)
Join(line) ==
    IF Len(line) = 0
    THEN ""
    ELSE (IF line[1][1] = "text" THEN line[1][2] ELSE "{{}}") \o Join(Tail(line))

RECURSIVE lastModuleLine(_, _)
(* firstModuleLine scanning from the end of the file *)
lastModuleLine(lines, i) ==
    IF Len(lines) - i + 1 < 1
    THEN [path |-> "", err |-> Errorf("module path not found in go.mod")]
    ELSE IF HasPrefixModule(TrimSpace(lines[Len(lines) - i + 1]))
    THEN [path |-> Join(TrimSpace(TrimPrefixModule(
                            TrimSpace(lines[Len(lines) - i + 1])))),
          err |-> NoErr]
    ELSE lastModuleLine(lines, i + 1)

RECURSIVE firstModuleLine(_, _)
firstModuleLine(lines, i) ==
    IF i > Len(lines)
    THEN [path |-> "", err |-> Errorf("module path not found in go.mod")]
    ELSE IF HasPrefixModule(TrimSpace(lines[i]))
    THEN [path |-> Join(TrimSpace(TrimPrefixModule(TrimSpace(lines[i])))),
          err |-> NoErr]
    ELSE firstModuleLine(lines, i + 1)

getModulePath(f) ==
    IF f.root # "dir" \/ GoModPath \notin DOMAIN f.files
    THEN [path |-> "", err |-> Errorf("failed to read go.mod")]
    ELSE firstModuleLine(Split(f.files[GoModPath], 1, <<>>), 1)

GoModContent(modulePath) ==
    <<Text("module"), Text(" "), Text(modulePath), NL, NL, Text("go 1.22"), NL>>

(***************************************************************************)
(* Template stores.  The embedded tree is not part of the engine; each     *)
(* store below is one possible content of it, its bundles listed in walk   *)
(* order.                                                                  *)
(***************************************************************************)
F(path, content) == [path |-> path, isDir |-> FALSE, content |-> content]

D(path) == [path |-> path, isDir |-> TRUE, content |-> <<>>]

Gitignore == << <<"", "gitignore">> >>

ReadmeTmpl == << <<"README", "md", "tmpl">> >>

Readme == << <<"README", "md">> >>

Internal == << <<"internal">> >>

DbGoTmpl == Internal \o << <<"db", "go", "tmpl">> >>

DbGo == Internal \o << <<"db", "go">> >>

ApiGoTmpl == Internal \o << <<"api", "go", "tmpl">> >>

Dockerfile == << <<"Dockerfile">> >>

ComposeTmpl == << <<"docker-compose", "yml", "tmpl">> >>

Compose == << <<"docker-compose", "yml">> >>

(* every bundle present, every template well formed; the postgres bundle   *)
(* carries a static README.md that lands on the base bundle's README.md    *)
PlainStore ==
    ("files/base" :>
        << F(Gitignore, <<Text("bin/")>>),
           F(ReadmeTmpl, <<Text("# "), <<"var", "ProjectName">>,
                           <<"ifeq", "Database", "postgres", "uses postgres">> >>),
           D(Internal),
           F(DbGoTmpl, <<Text("package db // "), <<"var", "Router">> >>) >>)
    @@ ("files/db/postgres" :>
        << F(Readme, <<Text("postgres notes")>>),
           D(Internal),
           F(DbGoTmpl, <<Text("package db // postgres "),
                         <<"var", "ModulePath">> >>) >>)
    @@ ("files/db/mongo" :>
        << D(Internal),
           F(DbGoTmpl, <<Text("package db // mongo")>>) >>)
    @@ ("files/openapi/gen" :>
        << D(Internal),
           F(ApiGoTmpl, <<Text("package api // "), <<"var", "OpenAPI">> >>) >>)
    @@ ("files/openapi/manual" :>
        << D(Internal),
           F(ApiGoTmpl, <<Text("package api // manual")>>) >>)
    @@ ("files/docker" :>
        << F(Dockerfile, <<Text("FROM golang "), <<"var", "ProjectName">> >>),
           F(ComposeTmpl, <<Text("services: "), <<"var", "ProjectName">>,
                            <<"if", "HasDocker", " docker">> >>) >>)

(* the base bundle is sound and ships a go.mod and a file named api; the   *)
(* module bundles fail in the ways a bundle can: a template that does not  *)
(* parse, one that fails to execute, a bundle absent from the store        *)
FaultyStore ==
    ("files/base" :>
        << F(ReadmeTmpl, <<Text("# "), <<"var", "SpecPath">> >>),
           F(<< <<"api">> >>, <<Text("api notes")>>),
           F(GoModPath, <<Text("module"), Text("\t"), Text("shipped"), NL>>) >>)
    @@ ("files/db/postgres" :>
        << F(<< <<"a", "txt">> >>, <<Text("a")>>),
           F(<< <<"b", "go", "tmpl">> >>, << <<"bad">> >>),
           F(<< <<"c", "txt">> >>, <<Text("c")>>) >>)
    @@ ("files/db/mongo" :>
        << F(<< <<"a", "txt">> >>, <<Text("a")>>),
           F(<< <<"b", "go", "tmpl">> >>, << <<"chain", "Database", "Name">> >>) >>)
    @@ ("files/openapi/gen" :>
        << F(<< <<"api", "go", "tmpl">> >>, <<Text("package api")>>) >>)
    @@ ("files/openapi/manual" :>
        << F(<< <<"handlers", "go">> >>, <<Text("package handlers")>>) >>)
    @@ ("files/docker" :>
        << F(Dockerfile, <<Text("FROM golang")>>),
           F(ComposeTmpl, << <<"ifeq", "HasDocker", "true", "docker">> >>) >>)

(* the base bundle itself fails, after its first file was written *)
BrokenBaseStore ==
    ("files/base" :>
        << F(Gitignore, <<Text("bin/")>>),
           F(ReadmeTmpl, <<Text("# "), <<"bad">> >>),
           D(Internal) >>)
    @@ ("files/db/postgres" :> << F(Readme, <<Text("postgres notes")>>) >>)
    @@ ("files/db/mongo" :> << F(Readme, <<Text("mongo notes")>>) >>)
    @@ ("files/openapi/gen" :> << F(Readme, <<Text("gen notes")>>) >>)
    @@ ("files/openapi/manual" :> << F(Readme, <<Text("manual notes")>>) >>)
    @@ ("files/docker" :> << F(Dockerfile, <<Text("FROM golang")>>) >>)

Stores == {PlainStore, FaultyStore, BrokenBaseStore}

(***************************************************************************)
(* Destinations a command may find.                                        *)
(***************************************************************************)
OldTxt == << <<"old", "txt">> >>

OldProjectFS ==
    [root |-> "dir",
     files |-> (OldTxt :> <<Text("old")>>)
               @@ (Readme :> <<Text("old readme")>>)
               @@ (GoModPath :> GoModContent("old/module")),
     dirs |-> {}]

FileFS == [root |-> "file", files |-> EmptyFiles, dirs |-> {}]

(* a project whose go.mod has no line starting with "module ": the module  *)
(* directive is written with a tab                                         *)
NoModuleLineFS ==
    [root |-> "dir",
     files |-> (GoModPath :> <<Text("go 1.22"), NL,
                               Text("module"), Text("\t"), Text("tabbed"), NL>>),
     dirs |-> {}]

(* a project whose go.mod opens with a blank line and holds two module     *)
(* lines, the first one indented and followed by white space               *)
TwoModuleLinesFS ==
    [root |-> "dir",
     files |-> (GoModPath :> <<NL, Text(" "), Text("\t"), Text("module"), Text(" "),
                               Text(" "), Text("first/path"), Text(" "), NL,
                               Text("module"), Text(" "), Text("second/path"), NL>>),
     dirs |-> {}]

InitialFS ==
    {AbsentFS, EmptyDirFS, OldProjectFS, FileFS, NoModuleLineFS, TwoModuleLinesFS}

(***************************************************************************)
(* Inputs.                                                                 *)
(***************************************************************************)
Routers == {"chi", "gin", "fiber", "invalid"}

Databases == {"none", "postgres", "mongo", "invalid"}

OpenAPIModes == {"none", "gen", "manual", "invalid"}

MigrationTools == {"none", "goose", "invalid"}

InitInputs ==
    [ProjectName : {"proj"}, ModulePath : {"", "example.com/m"},
     Router : Routers, Database : Databases, OpenAPI : OpenAPIModes,
     SpecPath : {"", "api.yaml"}, Docker : BOOLEAN,
     Migrations : MigrationTools, Force : BOOLEAN]

AddInputs ==
    [Module : {"db", "openapi", "docker", "cache"},
     Type : {"", "postgres", "mongo", "mysql"},
     Mode : {"", "gen", "manual"},
     Spec : {"", "api.yaml"}]

NoOpts == [none |-> TRUE]

NoCtx == [none |-> TRUE]

NoGot == [none |-> TRUE]

Ev(step, ok) == [step |-> step, ok |-> ok]

Terminal == {"Done", "Failed"}

(***************************************************************************)
(* Engine.InitProject, stage by stage.                                     *)
(***************************************************************************)
InitContext(o) ==
    [Options |-> o,
     TemplateData |->
        ("ProjectName" :> Str(o.ProjectName))
        @@ ("ModulePath" :> Str(o.ModulePath))
        @@ ("Router" :> Str(o.Router))
        @@ ("Database" :> Str(o.Database))
        @@ ("OpenAPI" :> Str(o.OpenAPI))
        @@ ("Migrations" :> Str(o.Migrations))
        @@ ("HasDocker" :> Bool(o.Docker))]

(* NextStage with the OpenAPI block ahead of the database block *)
NextStageOpenAPIFirst(stage, o) ==
    CASE stage = "Validating" -> IF o.Force THEN "RemoveAll" ELSE "MkdirAll"
      [] stage = "RemoveAll" -> "MkdirAll"
      [] stage = "MkdirAll" -> "Base"
      [] stage = "Base" -> "OpenAPI"
      [] stage = "OpenAPI" -> "Database"
      [] stage = "Database" -> "Docker"
      [] stage = "Docker" -> "ModInit"
      [] stage = "ModInit" -> "Tidy"
      [] stage = "Tidy" -> "Fmt"
      [] stage = "Fmt" -> "Done"

(* where InitProject goes after a stage that returned no error *)
NextStage(stage, o) ==
    CASE stage = "Validating" -> IF o.Force THEN "RemoveAll" ELSE "MkdirAll"
      [] stage = "RemoveAll" -> "MkdirAll"
      [] stage = "MkdirAll" -> "Base"
      [] stage = "Base" -> "Database"
      [] stage = "Database" -> "OpenAPI"
      [] stage = "OpenAPI" -> "Docker"
      [] stage = "Docker" -> "ModInit"
      [] stage = "ModInit" -> "Tidy"
      [] stage = "Tidy" -> "Fmt"
      [] stage = "Fmt" -> "Done"

(* applied that clears the destination when the module's Apply failed *)
appliedRollback(a, category) ==
    [fs |-> IF a.err = NoErr THEN a.fs ELSE EmptyDirFS,
     err |-> IF a.err = NoErr
             THEN NoErr
             ELSE Wrap("failed to apply " \o category \o " module", a.err),
     events |-> <<Ev("lookup:" \o category, TRUE),
                  Ev("apply:" \o category, a.err = NoErr)>>]

(* one "Apply ... module" block of InitProject: the registry lookup, the   *)
(* nil check and the Apply call                                            *)
applied(a, category) ==
    [fs |-> a.fs,
     err |-> IF a.err = NoErr
             THEN NoErr
             ELSE Wrap("failed to apply " \o category \o " module", a.err),
     events |-> <<Ev("lookup:" \o category, TRUE),
                  Ev("apply:" \o category, a.err = NoErr)>>]

(* applyFound that passes over a module the registry does not hold *)
applyFoundSkipNil(found, category, name, c, f) ==
    IF found = Nil
    THEN [fs |-> f, err |-> NoErr, events |-> <<Ev("lookup:" \o category, FALSE)>>]
    ELSE applied(Apply(found, c, f), category)

applyFound(found, category, name, c, f) ==
    IF found = Nil
    THEN [fs |-> f,
          err |-> E("module not found", << <<category>>, <<name>> >>, {}),
          events |-> <<Ev("lookup:" \o category, FALSE)>>]
    ELSE applied(Apply(found, c, f), category)

applySelected(r, category, name, c, f) ==
    applyFound(GetModule(r, category, name), category, name, c, f)

skipped(f) == [fs |-> f, err |-> NoErr, events |-> <<>>]

(* postStepError with a failed go fmt returned as an error *)
postStepErrorFmtFatal(step, ok) ==
    CASE step = "ModInit" -> IF ok THEN NoErr ELSE Errorf("go mod init failed")
      [] step = "Tidy" -> IF ok THEN NoErr ELSE Errorf("go mod tidy failed")
      [] step = "Fmt" -> IF ok THEN NoErr ELSE Errorf("go fmt failed")

(* postStepError with a failed go mod tidy downgraded to a warning *)
postStepErrorTidyWarning(step, ok) ==
    CASE step = "ModInit" -> IF ok THEN NoErr ELSE Errorf("go mod init failed")
      [] step = "Tidy" -> NoErr
      [] step = "Fmt" -> NoErr

(* the outcome runPostSteps gives to each external command *)
postStepError(step, ok) ==
    CASE step = "ModInit" -> IF ok THEN NoErr ELSE Errorf("go mod init failed")
      [] step = "Tidy" -> IF ok THEN NoErr ELSE Errorf("go mod tidy failed")
      [] step = "Fmt" -> NoErr

(* go mod init refuses to run over an existing go.mod *)
GoModInit(f, modulePath, toolOk) ==
    IF toolOk /\ f.root = "dir" /\ GoModPath \notin DOMAIN f.files
    THEN osWriteFile(f, GoModPath, GoModContent(modulePath))
    ELSE [fs |-> f, ok |-> FALSE]

GoSumPath == << <<"go", "sum">> >>

(* go mod tidy: when it succeeds it may record checksums in go.sum *)
GoModTidy(f, toolOk, sums) ==
    IF toolOk /\ sums
    THEN osWriteFile(f, GoSumPath, <<Text("checksums")>>)
    ELSE [fs |-> f, ok |-> toolOk]

postStepResult(step, event, g) ==
    [fs |-> g.fs,
     err |-> IF postStepError(step, g.ok) = NoErr
             THEN NoErr
             ELSE Wrap("post-generation steps failed", postStepError(step, g.ok)),
     events |-> <<Ev(event, g.ok)>>]

validateResult(e, f) ==
    [fs |-> f, err |-> e, events |-> <<Ev("validate", e = NoErr)>>]

prepResult(msg, event, d) ==
    [fs |-> d.fs,
     err |-> IF d.ok THEN NoErr ELSE Wrap(msg, Errorf("io")),
     events |-> <<Ev(event, d.ok)>>]

(* baseResult with the overlay's error dropped *)
baseResultErrorDropped(r) ==
    [fs |-> r.fs, err |-> NoErr, events |-> <<Ev("base", r.err = NoErr)>>]

baseResult(r) ==
    [fs |-> r.fs,
     err |-> IF r.err = NoErr THEN NoErr
             ELSE Wrap("failed to apply base template", r.err),
     events |-> <<Ev("base", r.err = NoErr)>>]

Finish(stage, r) ==
    /\ err' = r.err
    /\ log' = log \o r.events
    /\ fs' = r.fs
    /\ pc' = IF r.err # NoErr THEN "Failed" ELSE NextStage(stage, opts)

InitValidate ==
    /\ cmd = "init" /\ pc = "Validating"
    /\ Finish("Validating", validateResult(validateInitOptions(opts), fs))
    /\ UNCHANGED <<store, registry, calls, fs0, cmd, opts, ctx, mod, got, ncall>>

InitRemoveAll ==
    /\ cmd = "init" /\ pc = "RemoveAll"
    /\ \E ioOk \in BOOLEAN :
         Finish("RemoveAll",
                prepResult("failed to remove existing directory", "removeAll",
                           IF ioOk THEN [fs |-> RemoveAll(fs), ok |-> TRUE]
                           ELSE [fs |-> fs, ok |-> FALSE]))
    /\ UNCHANGED <<store, registry, calls, fs0, cmd, opts, ctx, mod, got, ncall>>

InitMkdirAll ==
    /\ cmd = "init" /\ pc = "MkdirAll"
    /\ \E ioOk \in BOOLEAN :
         Finish("MkdirAll",
                prepResult("failed to create project directory", "mkdirAll",
                           IF ioOk THEN MkdirAll(fs, <<>>)
                           ELSE [fs |-> fs, ok |-> FALSE]))
    /\ UNCHANGED <<store, registry, calls, fs0, cmd, opts, ctx, mod, got, ncall>>

InitBase ==
    /\ cmd = "init" /\ pc = "Base"
    /\ ctx' = InitContext(opts)
    /\ Finish("Base",
              baseResult(applyTemplate("files/base", fs,
                                       InitContext(opts).TemplateData)))
    /\ UNCHANGED <<store, registry, calls, fs0, cmd, opts, mod, got, ncall>>

(* InitDatabase with a module that records its name in the Context *)
InitDatabaseWritesContext ==
    /\ cmd = "init" /\ pc = "Database"
    /\ Finish("Database",
              IF opts.Database # "none"
              THEN applySelected(registry, "db", opts.Database, ctx, fs)
              ELSE skipped(fs))
    /\ ctx' = [ctx EXCEPT !.TemplateData = ("Applied" :> Str(opts.Database)) @@ @]
    /\ UNCHANGED <<store, registry, calls, fs0, cmd, opts, mod, got, ncall>>

InitDatabase ==
    /\ cmd = "init" /\ pc = "Database"
    /\ Finish("Database",
              IF opts.Database # "none"
              THEN applySelected(registry, "db", opts.Database, ctx, fs)
              ELSE skipped(fs))
    /\ UNCHANGED <<store, registry, calls, fs0, cmd, opts, ctx, mod, got, ncall>>

InitOpenAPI ==
    /\ cmd = "init" /\ pc = "OpenAPI"
    /\ Finish("OpenAPI",
              IF opts.OpenAPI # "none"
              THEN applySelected(registry, "openapi", opts.OpenAPI, ctx, fs)
              ELSE skipped(fs))
    /\ UNCHANGED <<store, registry, calls, fs0, cmd, opts, ctx, mod, got, ncall>>

(* InitDocker without the test of the Docker option *)
InitDockerAlways ==
    /\ cmd = "init" /\ pc = "Docker"
    /\ Finish("Docker", applySelected(registry, "docker", "", ctx, fs))
    /\ UNCHANGED <<store, registry, calls, fs0, cmd, opts, ctx, mod, got, ncall>>

InitDocker ==
    /\ cmd = "init" /\ pc = "Docker"
    /\ Finish("Docker",
              IF opts.Docker
              THEN applySelected(registry, "docker", "", ctx, fs)
              ELSE skipped(fs))
    /\ UNCHANGED <<store, registry, calls, fs0, cmd, opts, ctx, mod, got, ncall>>

PostModInit ==
    /\ cmd = "init" /\ pc = "ModInit"
    /\ \E toolOk \in BOOLEAN :
         Finish("ModInit",
                postStepResult("ModInit", "modinit",
                               GoModInit(fs, opts.ModulePath, toolOk)))
    /\ UNCHANGED <<store, registry, calls, fs0, cmd, opts, ctx, mod, got, ncall>>

PostTidy ==
    /\ cmd = "init" /\ pc = "Tidy"
    /\ \E toolOk, sums \in BOOLEAN :
         Finish("Tidy", postStepResult("Tidy", "tidy", GoModTidy(fs, toolOk, sums)))
    /\ UNCHANGED <<store, registry, calls, fs0, cmd, opts, ctx, mod, got, ncall>>

PostFmt ==
    /\ cmd = "init" /\ pc = "Fmt"
    /\ \E toolOk \in BOOLEAN :
         Finish("Fmt", postStepResult("Fmt", "fmt", [fs |-> fs, ok |-> toolOk]))
    /\ UNCHANGED <<store, registry, calls, fs0, cmd, opts, ctx, mod, got, ncall>>

(***************************************************************************)
(* The init command (initCmd.RunE), which calls InitProject.               *)
(***************************************************************************)
destinationExists(f) == f.root # "absent"

(* initRunEError without the os.Stat check of the destination *)
initRunEErrorNoStat(o, f) ==
    IF o.ModulePath = ""
    THEN Errorf("--module flag is required")
    ELSE IF o.OpenAPI = "gen" /\ o.SpecPath = ""
    THEN Errorf("--spec flag is required when using --openapi gen")
    ELSE NoErr

(* the checks of RunE before it builds the options record *)
initRunEError(o, f) ==
    IF o.ModulePath = ""
    THEN Errorf("--module flag is required")
    ELSE IF o.OpenAPI = "gen" /\ o.SpecPath = ""
    THEN Errorf("--spec flag is required when using --openapi gen")
    ELSE IF destinationExists(f) /\ ~o.Force
    THEN Errorf("directory already exists (use --force to overwrite)")
    ELSE NoErr

StartInit ==
    /\ pc = "idle"
    /\ \E o \in InitInputs : opts' = o
    /\ cmd' = "init" /\ pc' = "RunE"
    /\ fs0' = fs /\ log' = <<>> /\ err' = NoErr /\ ctx' = NoCtx /\ mod' = Nil
    /\ UNCHANGED <<store, registry, calls, fs, got, ncall>>

InitRunE ==
    /\ cmd = "init" /\ pc = "RunE"
    /\ LET e == initRunEError(opts, fs)
       IN  /\ err' = e
           /\ pc' = IF e # NoErr THEN "Failed" ELSE "Validating"
    /\ UNCHANGED <<store, registry, calls, fs, fs0, cmd, opts, ctx, mod, log, got, ncall>>

(***************************************************************************)
(* The add command (addCmd.RunE) and Engine.AddModule.                     *)
(***************************************************************************)
(* AddContext that assumes the project was generated with goose *)
AddContextGoose(modPath) ==
    [Options |-> [ProjectName |-> "", ModulePath |-> modPath, Router |-> "",
                  Database |-> "", OpenAPI |-> "", SpecPath |-> "",
                  Docker |-> FALSE, Migrations |-> "goose", Force |-> FALSE],
     TemplateData |-> ("ModulePath" :> Str(modPath))]

AddContext(modPath) ==
    [Options |-> [ProjectName |-> "", ModulePath |-> modPath, Router |-> "",
                  Database |-> "", OpenAPI |-> "", SpecPath |-> "",
                  Docker |-> FALSE, Migrations |-> "", Force |-> FALSE],
     TemplateData |-> ("ModulePath" :> Str(modPath))]

Put(data, key, value) == (key :> value) @@ data

(* addResolve with the registry consulted ahead of the sub-selector check *)
addResolveLookupFirst(r, a, c) ==
    CASE a.Module = "db" ->
           [mod |-> GetModule(r, "db", a.Type),
            ctx |-> [c EXCEPT !.Options.Database = a.Type,
                              !.TemplateData = Put(@, "Database", Str(a.Type))],
            events |-> <<Ev("lookup:db", GetModule(r, "db", a.Type) # Nil)>>,
            err |-> IF a.Type = ""
                    THEN Errorf("--type flag is required for db module")
                    ELSE IF GetModule(r, "db", a.Type) = Nil
                    THEN E("module not found", << <<a.Module>> >>, {})
                    ELSE NoErr]
      [] a.Module = "openapi" ->
           [mod |-> GetModule(r, "openapi", a.Mode),
            ctx |-> [c EXCEPT !.Options.OpenAPI = a.Mode,
                              !.Options.SpecPath = a.Spec,
                              !.TemplateData = Put(@, "OpenAPI", Str(a.Mode))],
            events |-> <<Ev("lookup:openapi", GetModule(r, "openapi", a.Mode) # Nil)>>,
            err |-> IF a.Mode = ""
                    THEN Errorf("--mode flag is required for openapi module")
                    ELSE IF GetModule(r, "openapi", a.Mode) = Nil
                    THEN E("module not found", << <<a.Module>> >>, {})
                    ELSE NoErr]
      [] a.Module = "docker" ->
           [mod |-> GetModule(r, "docker", ""),
            ctx |-> [c EXCEPT !.Options.Docker = TRUE,
                              !.TemplateData = Put(@, "HasDocker", Bool(TRUE))],
            events |-> <<Ev("lookup:docker", GetModule(r, "docker", "") # Nil)>>,
            err |-> IF GetModule(r, "docker", "") = Nil
                    THEN E("module not found", << <<a.Module>> >>, {})
                    ELSE NoErr]
      [] OTHER ->
           [mod |-> Nil, ctx |-> c, events |-> <<>>,
            err |-> E("unknown module", << <<a.Module>> >>, {})]

(* the switch of AddModule with the nil check that follows it *)
addResolve(r, a, c) ==
    CASE a.Module = "db" ->
           IF a.Type = ""
           THEN [mod |-> Nil, ctx |-> c, events |-> <<>>,
                 err |-> Errorf("--type flag is required for db module")]
           ELSE LET m == GetModule(r, "db", a.Type)
                IN  [mod |-> m,
                     ctx |-> [c EXCEPT !.Options.Database = a.Type,
                                       !.TemplateData =
                                           Put(@, "Database", Str(a.Type))],
                     events |-> <<Ev("lookup:db", m # Nil)>>,
                     err |-> IF m = Nil
                             THEN E("module not found", << <<a.Module>> >>, {})
                             ELSE NoErr]
      [] a.Module = "openapi" ->
           IF a.Mode = ""
           THEN [mod |-> Nil, ctx |-> c, events |-> <<>>,
                 err |-> Errorf("--mode flag is required for openapi module")]
           ELSE LET m == GetModule(r, "openapi", a.Mode)
                IN  [mod |-> m,
                     ctx |-> [c EXCEPT !.Options.OpenAPI = a.Mode,
                                       !.Options.SpecPath = a.Spec,
                                       !.TemplateData =
                                           Put(@, "OpenAPI", Str(a.Mode))],
                     events |-> <<Ev("lookup:openapi", m # Nil)>>,
                     err |-> IF m = Nil
                             THEN E("module not found", << <<a.Module>> >>, {})
                             ELSE NoErr]
      [] a.Module = "docker" ->
           LET m == GetModule(r, "docker", "")
           IN  [mod |-> m,
                ctx |-> [c EXCEPT !.Options.Docker = TRUE,
                                  !.TemplateData =
                                      Put(@, "HasDocker", Bool(TRUE))],
                events |-> <<Ev("lookup:docker", m # Nil)>>,
                err |-> IF m = Nil
                        THEN E("module not found", << <<a.Module>> >>, {})
                        ELSE NoErr]
      [] OTHER ->
           [mod |-> Nil, ctx |-> c, events |-> <<>>,
            err |-> E("unknown module", << <<a.Module>> >>, {})]

(* AddModule's treatment of the go mod tidy result *)
addTidyError(ok) == NoErr

StartAdd ==
    /\ pc = "idle"
    /\ fs.root = "dir"
    /\ \E a \in AddInputs : opts' = a
    /\ cmd' = "add" /\ pc' = "RunE"
    /\ fs0' = fs /\ log' = <<>> /\ err' = NoErr /\ ctx' = NoCtx /\ mod' = Nil
    /\ UNCHANGED <<store, registry, calls, fs, got, ncall>>

AddRunE ==
    /\ cmd = "add" /\ pc = "RunE"
    /\ IF GoModPath \notin DOMAIN fs.files
       THEN /\ err' = Errorf("not in a Go project directory (go.mod not found)")
            /\ pc' = "Failed"
       ELSE /\ err' = NoErr
            /\ pc' = "GetModulePath"
    /\ UNCHANGED <<store, registry, calls, fs, fs0, cmd, opts, ctx, mod, log, got, ncall>>

addPathResult(r) ==
    /\ err' = r.err
    /\ log' = Append(log, Ev("getModulePath", r.err = NoErr))
    /\ IF r.err # NoErr
       THEN pc' = "Failed" /\ ctx' = ctx
       ELSE pc' = "Resolve" /\ ctx' = AddContext(r.path)

AddGetModulePath ==
    /\ cmd = "add" /\ pc = "GetModulePath"
    /\ addPathResult(getModulePath(fs))
    /\ UNCHANGED <<store, registry, calls, fs, fs0, cmd, opts, mod, got, ncall>>

addResolved(r) ==
    /\ err' = r.err
    /\ log' = log \o r.events
    /\ mod' = r.mod
    /\ ctx' = r.ctx
    /\ pc' = IF r.err # NoErr THEN "Failed" ELSE "Apply"

AddResolve ==
    /\ cmd = "add" /\ pc = "Resolve"
    /\ addResolved(addResolve(registry, opts, ctx))
    /\ UNCHANGED <<store, registry, calls, fs, fs0, cmd, opts, got, ncall>>

addApplied(a) ==
    /\ fs' = a.fs
    /\ log' = Append(log, Ev("apply:" \o opts.Module, a.err = NoErr))
    /\ err' = a.err
    /\ pc' = IF a.err # NoErr THEN "Failed" ELSE "AddTidy"

AddApply ==
    /\ cmd = "add" /\ pc = "Apply"
    /\ addApplied(wrapped("failed to apply module", Apply(mod, ctx, fs)))
    /\ UNCHANGED <<store, registry, calls, fs0, cmd, opts, ctx, mod, got, ncall>>

(* AddTidy followed by a go fmt run *)
AddTidyThenFmt ==
    /\ cmd = "add" /\ pc = "AddTidy"
    /\ \E ok, sums \in BOOLEAN :
         /\ fs' = GoModTidy(fs, ok, sums).fs
         /\ log' = log \o <<Ev("tidy", ok), Ev("fmt", TRUE)>>
         /\ err' = addTidyError(ok)
         /\ pc' = IF addTidyError(ok) # NoErr THEN "Failed" ELSE "Done"
    /\ UNCHANGED <<store, registry, calls, fs0, cmd, opts, ctx, mod, got, ncall>>

AddTidy ==
    /\ cmd = "add" /\ pc = "AddTidy"
    /\ \E ok, sums \in BOOLEAN :
         /\ fs' = GoModTidy(fs, ok, sums).fs
         /\ log' = Append(log, Ev("tidy", ok))
         /\ err' = addTidyError(ok)
         /\ pc' = IF addTidyError(ok) # NoErr THEN "Failed" ELSE "Done"
    /\ UNCHANGED <<store, registry, calls, fs0, cmd, opts, ctx, mod, got, ncall>>

(***************************************************************************)
(* The registry used on its own: Register and GetModule calls.             *)
(***************************************************************************)
Categories == {"db", "openapi", "docker", "nonexistent"}

Names == {"", "postgres", "gen", "nonexistent", "x"}

RegisterCategories == {"db", "nonexistent"}

RegisterNames == {"postgres", "x"}

RegisterModules == {"Mongo", "Docker"}

RegisterCall ==
    /\ pc \in {"idle", "api"}
    /\ ncall < MaxCalls
    /\ \E c \in RegisterCategories, n \in RegisterNames, m \in RegisterModules :
         /\ registry' = Register(registry, c, n, m)
         /\ calls' = Append(calls, Call(c, n, m))
    /\ pc' = "api" /\ ncall' = ncall + 1
    /\ UNCHANGED <<store, fs, fs0, cmd, opts, ctx, mod, err, log, got>>

GetModuleCall ==
    /\ pc \in {"idle", "api"}
    /\ ncall < MaxCalls
    /\ \E c \in Categories, n \in Names :
         got' = [category |-> c, name |-> n, module |-> GetModule(registry, c, n)]
    /\ pc' = "api" /\ ncall' = ncall + 1
    /\ UNCHANGED <<store, registry, calls, fs, fs0, cmd, opts, ctx, mod, err, log>>

(* the templates and variable mappings of the renderers' tests *)
RenderTemplates ==
    { <<Text("Hello "), <<"var", "Name">> >>,
      << <<"if", "Show", "Visible">> >>,
      << <<"ifeq", "Database", "postgres", "DATABASE_URL">> >>,
      <<Text("Hello "), <<"bad">> >> }

NoData == [k \in {} |-> Str("")]

RenderData ==
    { NoData,
      "Name" :> Str("World"),
      "Show" :> Bool(TRUE),
      "Show" :> Bool(FALSE),
      "Database" :> Str("postgres"),
      "Database" :> Str("none") }

Renderers == {"engine", "modules"}

rendered(which, content, data, r) ==
    [renderer |-> which, content |-> content, data |-> data,
     out |-> r.out, err |-> r.err]

(* a renderer called on its own, as its tests call it *)
RenderCall ==
    /\ pc \in {"idle", "api"}
    /\ ncall < MaxCalls
    /\ \E which \in Renderers, content \in RenderTemplates, data \in RenderData :
         got' = rendered(which, content, data,
                         IF which = "engine"
                         THEN renderTemplate(content, data)
                         ELSE modRenderTemplate(content, data))
    /\ pc' = "api" /\ ncall' = ncall + 1
    /\ UNCHANGED <<store, registry, calls, fs, fs0, cmd, opts, ctx, mod, err, log>>

(* getModulePath called on its own, as its tests call it *)
GetModulePathCall ==
    /\ pc \in {"idle", "api"}
    /\ ncall < MaxCalls
    /\ got' = getModulePath(fs)
    /\ pc' = "api" /\ ncall' = ncall + 1
    /\ UNCHANGED <<store, registry, calls, fs, fs0, cmd, opts, ctx, mod, err, log>>

(***************************************************************************)
(* Specifications.                                                         *)
(***************************************************************************)
InitCommon ==
    /\ store \in Stores
    /\ fs \in InitialFS
    /\ fs0 = fs
    /\ cmd = "none" /\ pc = "idle"
    /\ opts = NoOpts /\ ctx = NoCtx /\ mod = Nil
    /\ err = NoErr /\ log = <<>> /\ got = NoGot
    /\ ncall = 0

Init == InitCommon /\ calls = NewRegistryCalls /\ registry = NewRegistry

Next ==
    \/ StartInit \/ InitRunE \/ InitValidate \/ InitRemoveAll \/ InitMkdirAll
    \/ InitBase \/ InitDatabase \/ InitOpenAPI \/ InitDocker
    \/ PostModInit \/ PostTidy \/ PostFmt
    \/ StartAdd \/ AddRunE \/ AddGetModulePath \/ AddResolve \/ AddApply
    \/ AddTidy
    \/ RegisterCall \/ GetModuleCall \/ GetModulePathCall \/ RenderCall

Spec == Init /\ [][Next]_vars

(* The Engine reads its registry field; this specification ranges over     *)
(* registries other than the one NewEngine installs: the zero Registry and *)
(* one that lacks db/mongo, openapi/gen and the docker category.           *)
PartialRegistryCalls ==
    << Call("db", "postgres", "Postgres"),
       Call("openapi", "manual", "OpenAPIManual") >>

RegistryCalls == {NewRegistryCalls, PartialRegistryCalls, <<>>}

InitRegistry ==
    /\ InitCommon
    /\ calls \in RegistryCalls
    /\ registry = RegisterAll(EmptyRegistry, calls)

SpecRegistry == InitRegistry /\ [][Next]_vars

(***************************************************************************)
(* Properties.                                                             *)
(***************************************************************************)
Range(seq) == {seq[i] : i \in 1..Len(seq)}

Steps(l) == {l[i].step : i \in 1..Len(l)}

EnumFields == <<"Router", "Database", "OpenAPI", "Migrations">>

DomainOf(field) ==
    CASE field = "Router" -> {"chi", "gin", "fiber"}
      [] field = "Database" -> {"none", "postgres", "mongo"}
      [] field = "OpenAPI" -> {"none", "gen", "manual"}
      [] field = "Migrations" -> {"none", "goose"}

MessageOf(field) ==
    CASE field = "Router" -> "invalid router"
      [] field = "Database" -> "invalid database"
      [] field = "OpenAPI" -> "invalid openapi"
      [] field = "Migrations" -> "invalid migrations"

OutOfDomain(o) == {i \in 1..Len(EnumFields) : o[EnumFields[i]] \notin DomainOf(EnumFields[i])}

FirstOutOfDomain(o) ==
    EnumFields[CHOOSE i \in OutOfDomain(o) : \A j \in OutOfDomain(o) : i <= j]

IsValidationError(e) ==
    Len(e) = 1 /\ e[1].msg \in {MessageOf(EnumFields[i]) : i \in 1..Len(EnumFields)}

(* InitProject has been entered and its first stage has run *)
InitProjectCalled == cmd = "init" /\ log # <<>>

(* C1: an options record with an enumerated field outside its domain makes *)
(* InitProject return a validation error with the destination exactly as   *)
(* it was found (not deleted even under Force, not created, not written)    *)
(* and with no stage other than the validation having run.                  *)
C1_ValidationBeforeMutation ==
    (InitProjectCalled /\ OutOfDomain(opts) # {})
        => /\ pc = "Failed"
           /\ IsValidationError(err)
           /\ fs = fs0
           /\ log = <<Ev("validate", FALSE)>>
           /\ ctx = NoCtx

C1_Witness ==
    /\ InitProjectCalled /\ OutOfDomain(opts) # {}
    /\ opts.Force /\ fs0.root = "dir" /\ DOMAIN fs0.files # {}
    /\ pc = "Failed" /\ fs = fs0

(* C2: the validation accepts exactly the records whose four enumerated    *)
(* fields are all in their domains, and otherwise its error names the      *)
(* first out-of-domain field in the order Router, Database, OpenAPI,       *)
(* Migrations, with the value received and the allowed set.                *)
C2_ValidationFirstField ==
    InitProjectCalled
        => /\ log[1].step = "validate"
           /\ log[1].ok <=> (OutOfDomain(opts) = {})
           /\ ~log[1].ok =>
                err = E(MessageOf(FirstOutOfDomain(opts)),
                        << <<opts[FirstOutOfDomain(opts)]>> >>,
                        DomainOf(FirstOutOfDomain(opts)))

C2_Witness ==
    /\ InitProjectCalled
    /\ opts.Router = "invalid" /\ opts.Database = "invalid"
    /\ opts.OpenAPI = "invalid" /\ opts.Migrations = "invalid"
    /\ err = E("invalid router", << <<"invalid">> >>, {"chi", "gin", "fiber"})

DestinationConflict == Errorf("directory already exists (use --force to overwrite)")

RequiredFlagErrors ==
    {Errorf("--module flag is required"),
     Errorf("--spec flag is required when using --openapi gen")}

RequiredFlagsGiven(o) == o.ModulePath # "" /\ ~(o.OpenAPI = "gen" /\ o.SpecPath = "")

(* an init run that found an existing, non-empty destination directory and *)
(* was not told to overwrite it, once RunE has made its checks             *)
UnforcedOverExisting ==
    /\ cmd = "init" /\ pc # "RunE"
    /\ ~opts.Force
    /\ fs0.root = "dir" /\ (DOMAIN fs0.files # {} \/ fs0.dirs # {})

(* C3, as stated: without force-overwrite, an init run over an existing    *)
(* non-empty destination fails with the destination-conflict error before  *)
(* anything is written; no pre-existing file is modified.                   *)
C3_Original ==
    UnforcedOverExisting
        => pc = "Failed" /\ err = DestinationConflict /\ fs = fs0

(* C3, amended: such a run always fails before anything is written and     *)
(* before InitProject is entered; the error is the destination conflict    *)
(* when the required flags were given, and the required-flag error          *)
(* otherwise, because RunE checks the flags first.                          *)
C3_DestinationConflict ==
    UnforcedOverExisting
        => /\ pc = "Failed"
           /\ fs = fs0
           /\ log = <<>>
           /\ IF RequiredFlagsGiven(opts)
              THEN err = DestinationConflict
              ELSE err \in RequiredFlagErrors

C3_Witness ==
    /\ UnforcedOverExisting
    /\ RequiredFlagsGiven(opts)
    /\ pc = "Failed" /\ err = DestinationConflict
    /\ fs = OldProjectFS

StepOrder ==
    <<"validate", "removeAll", "mkdirAll", "base",
      "lookup:db", "apply:db", "lookup:openapi", "apply:openapi",
      "lookup:docker", "apply:docker", "modinit", "tidy", "fmt">>

Rank(step) == CHOOSE i \in 1..Len(StepOrder) : StepOrder[i] = step

ModuleCategories == <<"db", "openapi", "docker">>

Selected(o, category) ==
    CASE category = "db" -> o.Database # "none"
      [] category = "openapi" -> o.OpenAPI # "none"
      [] category = "docker" -> o.Docker

SelectedName(o, category) ==
    CASE category = "db" -> o.Database
      [] category = "openapi" -> o.OpenAPI
      [] category = "docker" -> ""

PastModules == {"ModInit", "Tidy", "Fmt", "Done"}

(* C4: in InitProject every module Apply comes after a successful base     *)
(* overlay, the Applies come in the order database, OpenAPI, Docker, only  *)
(* selected modules are applied, a step runs only if every earlier step    *)
(* succeeded, and the post-steps are reached only once every selected      *)
(* module has been applied.                                                *)
C4_ModuleOrder ==
    cmd = "init"
        => /\ \A i, j \in 1..Len(log) :
                i < j => Rank(log[i].step) < Rank(log[j].step) /\ log[i].ok
           /\ \A k \in 1..Len(ModuleCategories) :
                /\ ("apply:" \o ModuleCategories[k]) \in Steps(log)
                      => /\ Ev("base", TRUE) \in Range(log)
                         /\ Selected(opts, ModuleCategories[k])
                /\ (pc \in PastModules /\ Selected(opts, ModuleCategories[k]))
                      => Ev("apply:" \o ModuleCategories[k], TRUE) \in Range(log)

C4_Witness ==
    /\ cmd = "init"
    /\ \E i, j, k \in 1..Len(log) :
           /\ i < j /\ j < k
           /\ log[i] = Ev("apply:db", TRUE)
           /\ log[j] = Ev("apply:openapi", TRUE)
           /\ log[k] = Ev("apply:docker", TRUE)

DestPath(e) == IF HasSuffixTmpl(e.path) THEN TrimSuffixTmpl(e.path) ELSE e.path

BundleFiles(b) == {i \in 1..Len(store[b]) : ~store[b][i].isDir}

BundleDest(b) == {DestPath(store[b][i]) : i \in BundleFiles(b)}

LastEntryFor(b, p) ==
    store[b][CHOOSE i \in BundleFiles(b) :
                /\ DestPath(store[b][i]) = p
                /\ \A j \in BundleFiles(b) : DestPath(store[b][j]) = p => j <= i]

(* what a bundle puts at destination path p: the rendering of its template *)
(* or the bytes of its static file                                         *)
BundleOutput(b, p, data) ==
    IF HasSuffixTmpl(LastEntryFor(b, p).path)
    THEN modRenderTemplate(LastEntryFor(b, p).content, data).out
    ELSE LastEntryFor(b, p).content

DbBundle(name) == "files/db/" \o name

(* the base overlay and then the database module's overlay have both been  *)
(* applied to the destination, and nothing has been applied since          *)
BaseThenDatabaseApplied ==
    /\ cmd = "init" /\ pc = "OpenAPI"
    /\ Ev("base", TRUE) \in Range(log)
    /\ Ev("apply:db", TRUE) \in Range(log)

(* C5: after the base bundle and then the database bundle were applied to  *)
(* the same destination, every path both bundles contain holds exactly the *)
(* later (database) bundle's output, and every path only the base bundle   *)
(* contains still holds the base bundle's output.                          *)
C5_LaterBundleWins ==
    BaseThenDatabaseApplied
        => \A p \in BundleDest("files/base") :
              /\ p \in DOMAIN fs.files
              /\ fs.files[p] =
                    IF p \in BundleDest(DbBundle(opts.Database))
                    THEN BundleOutput(DbBundle(opts.Database), p, ctx.TemplateData)
                    ELSE BundleOutput("files/base", p, ctx.TemplateData)

C5_Witness ==
    /\ BaseThenDatabaseApplied
    /\ opts.Database = "postgres"
    /\ Readme \in BundleDest("files/base") \cap BundleDest("files/db/postgres")
    /\ BundleOutput("files/base", Readme, ctx.TemplateData)
          # BundleOutput("files/db/postgres", Readme, ctx.TemplateData)
    /\ fs.files[Readme] = <<Text("postgres notes")>>
    /\ fs.files[Gitignore] = <<Text("bin/")>>

ReferenceKinds == {"var", "if", "ifeq", "chain"}

References(content) ==
    {content[i][2] : i \in {j \in 1..Len(content) : content[j][1] \in ReferenceKinds}}

(* the variables the templates of a bundle reference *)
BundleReferences(b) ==
    UNION {References(store[b][i].content) :
              i \in {j \in BundleFiles(b) : HasSuffixTmpl(store[b][j].path)}}

BundleOf(m) ==
    CASE m = "Postgres" -> "files/db/postgres"
      [] m = "Mongo" -> "files/db/mongo"
      [] m = "OpenAPIGen" -> "files/openapi/gen"
      [] m = "OpenAPIManual" -> "files/openapi/manual"
      [] m = "Docker" -> "files/docker"

(* C6: an overlay apply succeeds only if every variable its templates      *)
(* reference is present in the variable mapping: a reference to an absent  *)
(* variable is a rendering error that fails the apply, in InitProject's    *)
(* base overlay and in the module overlay AddModule applies.               *)
C6_MissingVariableFails ==
    /\ (cmd = "init" /\ Ev("base", TRUE) \in Range(log))
          => BundleReferences("files/base") \subseteq DOMAIN ctx.TemplateData
    /\ (cmd = "add" /\ Ev("apply:" \o opts.Module, TRUE) \in Range(log))
          => BundleReferences(BundleOf(mod)) \subseteq DOMAIN ctx.TemplateData

LaterStages(category) ==
    CASE category = "db" -> {"OpenAPI", "Docker"} \cup PastModules
      [] category = "openapi" -> {"Docker"} \cup PastModules
      [] category = "docker" -> PastModules

LaterSteps(category) ==
    {StepOrder[i] : i \in {j \in 1..Len(StepOrder) :
                              j > Rank("lookup:" \o category)}}

ModuleNotFound(e) == Len(e) = 1 /\ e[1].msg = "module not found"

NotRegistered(category, name) ==
    \A i \in 1..Len(calls) : ~(calls[i].category = category /\ calls[i].name = name)

AddSelected(a) ==
    CASE a.Module = "db" -> a.Type # ""
      [] a.Module = "openapi" -> a.Mode # ""
      [] a.Module = "docker" -> TRUE
      [] OTHER -> FALSE

AddSelectedName(a) ==
    CASE a.Module = "db" -> a.Type
      [] a.Module = "openapi" -> a.Mode
      [] a.Module = "docker" -> ""

(* C7: in InitProject and in AddModule, when a capability is selected and  *)
(* no module is registered under its (category, name), the call never gets *)
(* past the lookup: no Apply of that or a later module, no post-step, no   *)
(* success, and once the lookup has run the call has failed with a         *)
(* module-not-found error and the destination as the lookup found it.      *)
C7_MissingModuleFails ==
    /\ cmd = "init" =>
          \A k \in 1..Len(ModuleCategories) :
             (/\ Selected(opts, ModuleCategories[k])
              /\ NotRegistered(ModuleCategories[k],
                               SelectedName(opts, ModuleCategories[k])))
                => /\ pc \notin LaterStages(ModuleCategories[k])
                   /\ Steps(log) \cap LaterSteps(ModuleCategories[k]) = {}
                   /\ ("lookup:" \o ModuleCategories[k]) \in Steps(log)
                         => /\ pc = "Failed"
                            /\ ModuleNotFound(err)
                            /\ log[Len(log)] =
                                  Ev("lookup:" \o ModuleCategories[k], FALSE)
    /\ (/\ cmd = "add"
        /\ AddSelected(opts)
        /\ NotRegistered(opts.Module, AddSelectedName(opts)))
             => /\ pc \notin {"Apply", "AddTidy", "Done"}
                /\ Steps(log) \cap {"apply:" \o opts.Module, "tidy"} = {}
                /\ ("lookup:" \o opts.Module) \in Steps(log)
                      => /\ pc = "Failed"
                         /\ ModuleNotFound(err)
                         /\ fs = fs0

C7_Witness ==
    /\ cmd = "init"
    /\ opts.Database = "postgres" /\ opts.OpenAPI = "gen" /\ opts.Docker
    /\ NotRegistered("openapi", "gen")
    /\ Ev("apply:db", TRUE) \in Range(log)
    /\ log[Len(log)] = Ev("lookup:openapi", FALSE)
    /\ pc = "Failed" /\ ModuleNotFound(err)

RECURSIVE LastRegistered(_, _, _)
(* the module of the latest Register call made under exactly this key *)
LastRegistered(cs, category, name) ==
    IF Len(cs) = 0
    THEN Nil
    ELSE IF cs[Len(cs)].category = category /\ cs[Len(cs)].name = name
    THEN cs[Len(cs)].module
    ELSE LastRegistered(SubSeq(cs, 1, Len(cs) - 1), category, name)

(* C8: every GetModule(category, name) call returns the module registered  *)
(* under exactly that key, and nil when nothing was registered under it,   *)
(* be the category unknown or only the name: never a default, never a      *)
(* module registered under another key.                                    *)
C8_GetModuleExactKey ==
    [][(ncall' = ncall + 1 /\ calls' = calls /\ "module" \in DOMAIN got')
          => got'.module = LastRegistered(calls, got'.category, got'.name)]_vars

C8_Witness ==
    /\ Len(calls) = Len(NewRegistryCalls) + 1
    /\ calls[Len(calls)] = Call("db", "x", "Mongo")
    /\ got = [category |-> "db", name |-> "nonexistent", module |-> Nil]
    /\ GetModule(registry, "nonexistent", "x") = Nil
    /\ GetModule(registry, "db", "x") = "Mongo"

(* C9: in InitProject a failed go mod init or go mod tidy fails the run,   *)
(* and a run that reaches go fmt returns success whether or not go fmt     *)
(* succeeds.                                                               *)
C9_PostStepFailures ==
    cmd = "init"
        => /\ (Ev("modinit", FALSE) \in Range(log) \/ Ev("tidy", FALSE) \in Range(log))
                 => pc = "Failed" /\ err # NoErr
           /\ "fmt" \in Steps(log) => pc = "Done" /\ err = NoErr

C9_Witness ==
    /\ cmd = "init"
    /\ Ev("tidy", TRUE) \in Range(log)
    /\ Ev("fmt", FALSE) \in Range(log)
    /\ pc = "Done" /\ err = NoErr

(* every stage InitProject must pass before go fmt has succeeded *)
AllStagesSucceeded ==
    /\ Ev("validate", TRUE) \in Range(log)
    /\ opts.Force => Ev("removeAll", TRUE) \in Range(log)
    /\ Ev("mkdirAll", TRUE) \in Range(log)
    /\ Ev("base", TRUE) \in Range(log)
    /\ \A k \in 1..Len(ModuleCategories) :
          Selected(opts, ModuleCategories[k])
             => Ev("apply:" \o ModuleCategories[k], TRUE) \in Range(log)
    /\ Ev("modinit", TRUE) \in Range(log)
    /\ Ev("tidy", TRUE) \in Range(log)

SomeStageFailed ==
    \E i \in 1..Len(log) : ~log[i].ok /\ log[i].step # "fmt"

InitProjectReturned == InitProjectCalled /\ pc \in Terminal

C10_Outcome ==
    /\ InitProjectReturned => (pc = "Done" <=> AllStagesSucceeded)
    /\ InitProjectReturned => (pc = "Failed" <=> SomeStageFailed)
    /\ (InitProjectCalled /\ SomeStageFailed) => (pc = "Failed" /\ err # NoErr)
    /\ (InitProjectCalled /\ pc = "Done") => err = NoErr

(* C10: InitProject returns success exactly when validation, directory     *)
(* preparation, the base overlay, every selected module's Apply and the    *)
(* dependency post-steps all succeeded; a failure of any of them leads to  *)
(* Failed with an error; and no step is taken from Done or Failed.         *)
C10_NoPartialSuccess == []C10_Outcome /\ [][pc \notin Terminal]_vars

C10_Witness ==
    /\ InitProjectReturned
    /\ pc = "Failed"
    /\ Ev("base", TRUE) \in Range(log)
    /\ log[Len(log)] = Ev("tidy", FALSE)
    /\ GoModPath \in DOMAIN fs.files

InitOnlySteps == {"validate", "removeAll", "mkdirAll", "base", "modinit", "fmt"}

(* C11: an add run never deletes or recreates the destination and never    *)
(* applies the base bundle (every file and directory it found is still     *)
(* there), and a successful AddModule call is exactly: the go.mod read,    *)
(* one lookup, one Apply of the one module resolved, then go mod tidy; go  *)
(* fmt never runs.                                                         *)
C11_AddPathSteps ==
    cmd = "add"
        => /\ Steps(log) \cap InitOnlySteps = {}
           /\ fs.root = "dir"
           /\ DOMAIN fs0.files \subseteq DOMAIN fs.files
           /\ fs0.dirs \subseteq fs.dirs
           /\ pc = "Done"
                 => /\ Len(log) = 4
                    /\ log[1] = Ev("getModulePath", TRUE)
                    /\ log[2] = Ev("lookup:" \o opts.Module, TRUE)
                    /\ log[3] = Ev("apply:" \o opts.Module, TRUE)
                    /\ log[4].step = "tidy"
                    /\ mod = LastRegistered(calls, opts.Module, AddSelectedName(opts))

C11_Witness ==
    /\ cmd = "add" /\ pc = "Done"
    /\ opts.Module = "db" /\ opts.Type = "postgres"
    /\ fs0 = OldProjectFS
    /\ fs.files[OldTxt] = <<Text("old")>>
    /\ fs.files[Readme] = <<Text("postgres notes")>>
    /\ log[4] = Ev("tidy", FALSE)

AddCategories == {"db", "openapi", "docker"}

(* the error AddModule's switch owes to a request it cannot resolve *)
SubSelectorError(a) ==
    CASE a.Module = "db" -> Errorf("--type flag is required for db module")
      [] a.Module = "openapi" -> Errorf("--mode flag is required for openapi module")
      [] OTHER -> E("unknown module", << <<a.Module>> >>, {})

(* AddModule has been entered with a request that lacks its required       *)
(* sub-selector or names an unrecognised category                          *)
AddModuleUnresolvable ==
    /\ cmd = "add" /\ log # <<>>
    /\ ~AddSelected(opts)

LookupOrApplySteps(l) ==
    {st \in Steps(l) : \E c \in AddCategories : st \in {"lookup:" \o c, "apply:" \o c}}

(* C12, as stated: in AddModule a db request without type, an openapi      *)
(* request without mode and a request for an unrecognised category each    *)
(* fail with the validation error, without any lookup or write.            *)
C12_Original ==
    (AddModuleUnresolvable /\ pc # "Resolve")
        => /\ pc = "Failed"
           /\ err = SubSelectorError(opts)
           /\ LookupOrApplySteps(log) = {}
           /\ fs = fs0

(* C12, amended: such a request always fails without any lookup or write;  *)
(* the error is the validation error once go.mod has been read, and the    *)
(* go.mod error when that read, which AddModule does first, fails.  A      *)
(* docker request goes to its lookup whatever the sub-selectors hold.      *)
C12_SubSelectorValidation ==
    /\ AddModuleUnresolvable
          => /\ LookupOrApplySteps(log) = {}
             /\ fs = fs0
             /\ mod = Nil
             /\ pc \in {"Resolve", "Failed"}
             /\ pc = "Failed" =>
                   IF log[1].ok
                   THEN err = SubSelectorError(opts)
                   ELSE err = getModulePath(fs0).err /\ err # NoErr
    /\ (cmd = "add" /\ opts.Module = "docker" /\ log # <<>> /\ log[1].ok
           /\ pc # "Resolve")
          => "lookup:docker" \in Steps(log)

C12_Witness ==
    /\ AddModuleUnresolvable
    /\ opts.Module = "openapi" /\ opts.Mode = ""
    /\ log = <<Ev("getModulePath", TRUE)>>
    /\ pc = "Failed"
    /\ err = Errorf("--mode flag is required for openapi module")
    /\ fs = fs0

(* the lines of a go.mod, and those among them of the form module <path> *)
GoModLines(f) == Split(f.files[GoModPath], 1, <<>>)

ModuleLines(f) ==
    {i \in 1..Len(GoModLines(f)) : HasPrefixModule(TrimSpace(GoModLines(f)[i]))}

FirstModuleLine(f) ==
    GoModLines(f)[CHOOSE i \in ModuleLines(f) : \A j \in ModuleLines(f) : i <= j]

HasGoMod(f) == f.root = "dir" /\ GoModPath \in DOMAIN f.files

(* what getModulePath owes for a destination: the trimmed remainder of the *)
(* first module line, or an error                                          *)
ModulePathOwed(f, r) ==
    IF HasGoMod(f) /\ ModuleLines(f) # {}
    THEN /\ r.err = NoErr
         /\ r.path = Join(TrimSpace(SubSeq(TrimSpace(FirstModuleLine(f)), 3,
                                           Len(TrimSpace(FirstModuleLine(f))))))
    ELSE r.err # NoErr

(* C13: getModulePath returns the path of the first line `module <path>`   *)
(* of go.mod, white space trimmed, and an error when go.mod is absent or   *)
(* has no such line; AddModule uses that path, and when the read fails it  *)
(* returns that error with no lookup, no Apply and no write.               *)
C13_GetModulePath ==
    /\ "path" \in DOMAIN got => ModulePathOwed(fs, got)
    /\ (cmd = "add" /\ log # <<>>)
          => /\ log[1].step = "getModulePath"
             /\ ModulePathOwed(fs0, [path |-> IF log[1].ok
                                              THEN ctx.TemplateData["ModulePath"].v
                                              ELSE "",
                                     err |-> IF log[1].ok THEN NoErr ELSE err])
             /\ ~log[1].ok
                   => /\ pc = "Failed"
                      /\ err \in {Errorf("failed to read go.mod"),
                                  Errorf("module path not found in go.mod")}
                      /\ log = <<Ev("getModulePath", FALSE)>>
                      /\ fs = fs0
                      /\ mod = Nil /\ ctx = NoCtx

C13_Witness ==
    /\ cmd = "add" /\ fs0 = TwoModuleLinesFS
    /\ log # <<>> /\ log[1].ok
    /\ ctx.TemplateData["ModulePath"] = Str("first/path")
    /\ ctx.Options.ModulePath = "first/path"

Marker == "tmpl"

LastName(path) == path[Len(path)]

(* the source name ends in the template marker *)
IsTemplateName(path) ==
    Len(LastName(path)) >= 2 /\ LastName(path)[Len(LastName(path))] = Marker

(* the path with the marker taken off its last name *)
Unsuffixed(path) ==
    SubSeq(path, 1, Len(path) - 1)
        \o <<SubSeq(LastName(path), 1, Len(LastName(path)) - 1)>>

(* every entry of bundle b is at the destination as the overlay owes it,   *)
(* data being the variable mapping the bundle was rendered with            *)
BundleWritten(b, data) ==
    \A i \in 1..Len(store[b]) :
        IF store[b][i].isDir
        THEN /\ store[b][i].path \in fs.dirs
             /\ store[b][i].path \notin DOMAIN fs.files
        ELSE IF IsTemplateName(store[b][i].path)
        THEN /\ Unsuffixed(store[b][i].path) \in DOMAIN fs.files
             /\ store[b][i].path \notin DOMAIN fs.files
             /\ fs.files[Unsuffixed(store[b][i].path)]
                   = renderTemplate(store[b][i].content, data).out
        ELSE /\ store[b][i].path \in DOMAIN fs.files
             /\ fs.files[store[b][i].path] = store[b][i].content

BaseJustApplied ==
    cmd = "init" /\ pc = "Database" /\ Ev("base", TRUE) \in Range(log)

DockerJustApplied ==
    cmd = "init" /\ pc = "ModInit" /\ Ev("apply:docker", TRUE) \in Range(log)

(* C14: once a bundle has been applied, each of its files whose name ends  *)
(* in .tmpl is at the destination under the name without the suffix, with  *)
(* the rendered content, and no file is there under the suffixed name;     *)
(* each other file is there under its own name with the source bytes, not  *)
(* rendered; each directory entry is a directory.  Stated for the base     *)
(* overlay of the Engine and for the docker overlay of the modules.        *)
C14_SuffixAndContent ==
    /\ BaseJustApplied => BundleWritten("files/base", ctx.TemplateData)
    /\ DockerJustApplied => BundleWritten("files/docker", ctx.TemplateData)

C14_Witness ==
    /\ DockerJustApplied
    /\ fs.files[Readme] # store["files/base"][2].content
    /\ store["files/base"][2].path = ReadmeTmpl
    /\ Internal \in fs.dirs
    /\ fs.files[Dockerfile] = <<Text("FROM golang "), <<"var", "ProjectName">> >>
    /\ fs.files[Compose] = <<Text("services: "), Text("proj"), Text(" docker")>>

NothingSelected ==
    /\ cmd = "init"
    /\ opts.Database = "none" /\ opts.OpenAPI = "none" /\ ~opts.Docker

FreshDestination == fs0 \in {AbsentFS, EmptyDirFS}

ModuleSteps ==
    {"lookup:" \o ModuleCategories[k] : k \in 1..Len(ModuleCategories)}
        \cup {"apply:" \o ModuleCategories[k] : k \in 1..Len(ModuleCategories)}

(* a module is looked up and applied in InitProject only if selected, and  *)
(* the run gets past the module blocks only with every selected module     *)
(* applied                                                                 *)
AppliedIffSelected ==
    cmd = "init"
        => \A k \in 1..Len(ModuleCategories) :
              /\ ("lookup:" \o ModuleCategories[k]) \in Steps(log)
                    => Selected(opts, ModuleCategories[k])
              /\ ("apply:" \o ModuleCategories[k]) \in Steps(log)
                    => Selected(opts, ModuleCategories[k])
              /\ (pc \in PastModules /\ Selected(opts, ModuleCategories[k]))
                    => Ev("apply:" \o ModuleCategories[k], TRUE) \in Range(log)

(* C15, as stated: modules are applied exactly when selected, and with     *)
(* nothing selected against a fresh destination a finished run has made no *)
(* lookup and no Apply and the destination holds exactly the base bundle's *)
(* file set.                                                               *)
C15_Original ==
    /\ AppliedIffSelected
    /\ (NothingSelected /\ FreshDestination /\ pc = "Done")
          => /\ Steps(log) \cap ModuleSteps = {}
             /\ DOMAIN fs.files = BundleDest("files/base")

(* C15, amended: modules are applied exactly when selected; with nothing   *)
(* selected against a fresh destination no lookup and no Apply occurs, the *)
(* overlays leave exactly the base bundle's file set, each file with the   *)
(* base bundle's output, and a run whose steps all succeed reaches Done    *)
(* with that set plus the go.mod that go mod init writes and the go.sum    *)
(* that go mod tidy may write.                                             *)
C15_BaseOnly ==
    /\ AppliedIffSelected
    /\ (NothingSelected /\ FreshDestination)
          => /\ Steps(log) \cap ModuleSteps = {}
             /\ pc = "ModInit"
                   => /\ DOMAIN fs.files = BundleDest("files/base")
                      /\ \A p \in BundleDest("files/base") :
                            fs.files[p] = BundleOutput("files/base", p, ctx.TemplateData)
             /\ pc = "Done"
                   => /\ GoModPath \notin BundleDest("files/base")
                      /\ BundleDest("files/base") \cup {GoModPath}
                            \subseteq DOMAIN fs.files
                      /\ DOMAIN fs.files \subseteq
                            BundleDest("files/base") \cup {GoModPath, GoSumPath}
             /\ (pc \in Terminal /\ log # <<>> /\ ~SomeStageFailed) => pc = "Done"

C15_Witness ==
    /\ NothingSelected /\ FreshDestination
    /\ pc = "Done"
    /\ DOMAIN fs.files = {Gitignore, Readme, DbGo, GoModPath}
    /\ BundleDest("files/base") = {Gitignore, Readme, DbGo}

OpenAPIBundle(mode) == "files/openapi/" \o mode

(* the paths the post-steps and the modules' own writes may create *)
ToolAndModulePaths ==
    {GoModPath, GoSumPath, GitkeepPath, InitialMigrationPath, SpecFilePath,
     MakefilePath}

(* every path a finished run with these options can have written *)
RunPaths(o) ==
    BundleDest("files/base")
        \cup (IF o.Database # "none" THEN BundleDest(DbBundle(o.Database)) ELSE {})
        \cup (IF o.OpenAPI # "none" THEN BundleDest(OpenAPIBundle(o.OpenAPI)) ELSE {})
        \cup (IF o.Docker THEN BundleDest("files/docker") ELSE {})
        \cup ToolAndModulePaths

ForcedRun == cmd = "init" /\ log # <<>> /\ opts.Force

(* C16: under force-overwrite InitProject removes the destination before   *)
(* it recreates it and before the base overlay; right after the removal    *)
(* nothing is left, and after a successful forced run every file and       *)
(* directory of the destination is one the run wrote: none that was there  *)
(* before survives.                                                        *)
C16_ForceRemovesFirst ==
    ForcedRun
        => /\ Len(log) >= 2 => log[2].step = "removeAll"
           /\ Len(log) >= 3 => log[2].ok /\ log[3].step = "mkdirAll"
           /\ pc = "MkdirAll" => fs = AbsentFS
           /\ pc = "Done"
                 => /\ DOMAIN fs.files \subseteq RunPaths(opts)
                    /\ \A p \in DOMAIN fs0.files \ RunPaths(opts) :
                          p \notin DOMAIN fs.files
                    /\ BundleDest("files/base") \subseteq DOMAIN fs.files
                    /\ fs.dirs \cap fs0.dirs = {}

C16_Witness ==
    /\ ForcedRun /\ pc = "Done"
    /\ fs0 = OldProjectFS
    /\ OldTxt \notin DOMAIN fs.files
    /\ fs.files[Readme] # <<Text("old readme")>>
    /\ fs.files[GoModPath] = GoModContent("example.com/m")

(* the template text is syntactically valid *)
WellFormed(content) == \A i \in 1..Len(content) : content[i] # <<"bad">>

(* the condition of a conditional node holds for the mapping *)
ConditionHolds(node, data) ==
    IF node[1] = "if"
    THEN node[2] \in DOMAIN data /\ data[node[2]] \notin {Bool(FALSE), Str("")}
    ELSE node[2] \in DOMAIN data /\ data[node[2]] = Str(node[3])

Body(node) == IF node[1] = "if" THEN node[3] ELSE node[4]

Conditionals(content) ==
    {i \in 1..Len(content) : content[i][1] \in {"if", "ifeq"}}

(* what a render of valid text without failing actions owes: each          *)
(* conditional's body is in the output exactly when its condition holds    *)
RenderOwed(g) ==
    IF ~WellFormed(g.content)
    THEN g.err # NoErr /\ g.out = <<>>
    ELSE /\ g.err = NoErr
         /\ \A i \in Conditionals(g.content) :
               Text(Body(g.content[i])) \in Range(g.out)
                  <=> ConditionHolds(g.content[i], g.data)
         /\ \A i \in 1..Len(g.content) :
               g.content[i][1] = "text" => g.content[i] \in Range(g.out)

IsRender(g) == "out" \in DOMAIN g

C17_RenderResult == IsRender(got) => RenderOwed(got)

(* the step is a call of a renderer *)
RenderStep == IsRender(got') /\ ncall' = ncall + 1 /\ calls' = calls

(* a render step that repeats the inputs of the render before it *)
C17_Repeatable ==
    (IsRender(got) /\ RenderStep
         /\ got'.content = got.content /\ got'.data = got.data)
        => got'.out = got.out /\ got'.err = got.err

(* a render step changes nothing but its result *)
C17_NoSideEffect ==
    RenderStep
        => UNCHANGED <<store, registry, calls, fs, fs0, cmd, opts, ctx, mod, err, log>>

BaseCalls == {i \in 1..Len(log) : log[i].step = "base"}

PostSteps == {"modinit", "tidy", "fmt"}

PastBase == {"Database", "OpenAPI", "Docker"} \cup PastModules

BaseFailed == cmd = "init" /\ Ev("base", FALSE) \in Range(log)

BaseFailureAborts ==
    BaseFailed
        => /\ pc = "Failed"
           /\ err # NoErr /\ err[1].msg = "failed to apply base template"
           /\ log[Len(log)] = Ev("base", FALSE)
           /\ Steps(log) \cap (ModuleSteps \cup PostSteps) = {}
           /\ DOMAIN fs.files \subseteq BundleDest("files/base")

(* C18, as stated: every InitProject run, successful or failed, applies    *)
(* the base bundle by exactly one overlay call, and a failure of that call *)
(* ends the run with no lookup, no module Apply and no post-step.          *)
C18_Original ==
    /\ InitProjectReturned => Cardinality(BaseCalls) = 1
    /\ BaseFailureAborts

(* C18, amended: a run applies the base bundle by at most one overlay      *)
(* call, by exactly one once validation and directory preparation have     *)
(* succeeded, and by none when one of them failed; if the call fails the   *)
(* run is Failed with the base error, it is the last step taken (no        *)
(* lookup, no module Apply, no post-step), and the destination holds       *)
(* nothing but what the base overlay wrote before it failed.               *)
C18_BaseOnceThenAbort ==
    /\ cmd = "init"
          => /\ Cardinality(BaseCalls) <= 1
             /\ pc \in PastBase => Cardinality(BaseCalls) = 1
             /\ InitProjectReturned
                   => (Cardinality(BaseCalls) = 1
                          <=> /\ Ev("validate", TRUE) \in Range(log)
                              /\ Ev("mkdirAll", TRUE) \in Range(log))
    /\ BaseFailureAborts

C18_Witness ==
    /\ BaseFailed
    /\ pc = "Failed"
    /\ opts.Database = "postgres" /\ opts.Docker
    /\ DOMAIN fs.files = {Gitignore}
    /\ Readme \in BundleDest("files/base")

Dest(e) == IF IsTemplateName(e.path) THEN Unsuffixed(e.path) ELSE e.path

Output(e, data) ==
    IF IsTemplateName(e.path) THEN renderTemplate(e.content, data).out ELSE e.content

(* the template files of bundle b whose rendering fails *)
RenderFailures(b, data) ==
    {i \in 1..Len(store[b]) :
        /\ ~store[b][i].isDir
        /\ IsTemplateName(store[b][i].path)
        /\ renderTemplate(store[b][i].content, data).err # NoErr}

FirstRenderFailure(b, data) ==
    CHOOSE i \in RenderFailures(b, data) : \A j \in RenderFailures(b, data) : i <= j

DestsBefore(b, k) == {Dest(store[b][j]) : j \in {n \in 1..(k - 1) : ~store[b][n].isDir}}

(* the destination after an apply of bundle b that stopped at entry k,     *)
(* having started from the tree before: the entries ahead of k are         *)
(* written, no entry from k on is, and nothing else has changed            *)
StoppedAt(b, data, k, before) ==
    /\ \A j \in 1..(k - 1) :
          IF store[b][j].isDir
          THEN store[b][j].path \in fs.dirs
          ELSE /\ Dest(store[b][j]) \in DOMAIN fs.files
               /\ fs.files[Dest(store[b][j])] = Output(store[b][j], data)
    /\ \A j \in k..Len(store[b]) :
          IF store[b][j].isDir
          THEN store[b][j].path \in fs.dirs => store[b][j].path \in before.dirs
          ELSE Dest(store[b][j]) \in DOMAIN fs.files
                  => Dest(store[b][j]) \in DestsBefore(b, k) \cup DOMAIN before.files
    /\ \A p \in DOMAIN before.files \ DestsBefore(b, k) :
          p \in DOMAIN fs.files /\ fs.files[p] = before.files[p]
    /\ DOMAIN fs.files \subseteq DestsBefore(b, k) \cup DOMAIN before.files

(* the error names the source path of the template that failed *)
RenderErrorAt(e, path) ==
    \E k \in 1..Len(e) : e[k].msg = "failed to render template" /\ e[k].arg = path

BaseRenderFails ==
    /\ cmd = "init" /\ "base" \in Steps(log)
    /\ RenderFailures("files/base", ctx.TemplateData) # {}

AddRenderFails ==
    /\ cmd = "add" /\ ("apply:" \o opts.Module) \in Steps(log)
    /\ BundleOf(mod) \in DOMAIN store
    /\ RenderFailures(BundleOf(mod), ctx.TemplateData) # {}

(* C19: when a template of a bundle fails to render, the apply fails with  *)
(* an error naming that template's source path, every entry ahead of it in *)
(* walk order is on disk as written, no entry from it on has been written, *)
(* and nothing else in the destination has changed.  Stated for the base   *)
(* overlay of InitProject and for the module overlay of AddModule.         *)
C19_RenderFailureStops ==
    /\ BaseRenderFails
          => /\ BaseFailed
             /\ RenderErrorAt(err, store["files/base"][
                    FirstRenderFailure("files/base", ctx.TemplateData)].path)
             /\ StoppedAt("files/base", ctx.TemplateData,
                          FirstRenderFailure("files/base", ctx.TemplateData),
                          EmptyDirFS)
    /\ AddRenderFails
          => /\ pc = "Failed"
             /\ log[Len(log)] = Ev("apply:" \o opts.Module, FALSE)
             /\ RenderErrorAt(err, store[BundleOf(mod)][
                    FirstRenderFailure(BundleOf(mod), ctx.TemplateData)].path)
             /\ StoppedAt(BundleOf(mod), ctx.TemplateData,
                          FirstRenderFailure(BundleOf(mod), ctx.TemplateData),
                          fs0)

C19_Witness ==
    /\ AddRenderFails
    /\ opts.Type = "postgres"
    /\ FirstRenderFailure(BundleOf(mod), ctx.TemplateData) = 2
    /\ << <<"a", "txt">> >> \in DOMAIN fs.files
    /\ fs.files[<< <<"a", "txt">> >>] = <<Text("a")>>
    /\ << <<"b", "go">> >> \notin DOMAIN fs.files
    /\ << <<"c", "txt">> >> \notin DOMAIN fs.files
    /\ OldTxt \in DOMAIN fs0.files
    /\ fs.files[OldTxt] = fs0.files[OldTxt]
    /\ RenderErrorAt(err, << <<"b", "go", "tmpl">> >>)

SelectedBundle(o, category) ==
    CASE category = "db" -> DbBundle(o.Database)
      [] category = "openapi" -> OpenAPIBundle(o.OpenAPI)
      [] category = "docker" -> "files/docker"

(* the files a module writes itself, next to its bundle *)
OwnWrites ==
    {<<GitkeepPath, <<>> >>, <<InitialMigrationPath, MigrationSQL>>,
     <<SpecFilePath, SpecContent(opts.ProjectName)>>,
     <<MakefilePath, MakefileContent>>}

(* content at p is something the module of this category writes there *)
WrittenByModule(category, p, content) ==
    \/ <<p, content>> \in OwnWrites
    \/ /\ SelectedBundle(opts, category) \in DOMAIN store
       /\ \E i \in BundleFiles(SelectedBundle(opts, category)) :
             /\ Dest(store[SelectedBundle(opts, category)][i]) = p
             /\ Output(store[SelectedBundle(opts, category)][i], ctx.TemplateData)
                    = content

(* the step of InitProject in which the Apply of this category's module fails *)
ApplyFails(category) ==
    /\ cmd = "init"
    /\ log' = log \o <<Ev("lookup:" \o category, TRUE),
                       Ev("apply:" \o category, FALSE)>>

AppliedBefore ==
    {c \in Range(ModuleCategories) : Ev("apply:" \o c, TRUE) \in Range(log)}

NoRollback(category) ==
    /\ pc' = "Failed"
    /\ err' # NoErr
    /\ fs'.root = "dir"
    /\ fs.dirs \subseteq fs'.dirs
    /\ \A p \in DOMAIN fs.files :
          /\ p \in DOMAIN fs'.files
          /\ \/ fs'.files[p] = fs.files[p]
             \/ WrittenByModule(category, p, fs'.files[p])
    /\ BundleDest("files/base") \subseteq DOMAIN fs'.files
    /\ \A c \in AppliedBefore :
          BundleDest(SelectedBundle(opts, c)) \subseteq DOMAIN fs'.files

(* C20: when the Apply of a module fails during InitProject nothing is     *)
(* rolled back: the run fails with an error, every file and directory that *)
(* was on disk before the failing Apply (the base overlay's and the        *)
(* earlier modules') is still there, and each file holds what it held or   *)
(* what the failing module wrote to it before it failed.                   *)
C20_NoRollback ==
    [][\A c \in Range(ModuleCategories) : ApplyFails(c) => NoRollback(c)]_vars

C20_Witness ==
    /\ cmd = "init" /\ pc = "Failed" /\ err # NoErr
    /\ Ev("apply:openapi", TRUE) \in Range(log)
    /\ log[Len(log)] = Ev("apply:docker", FALSE)
    /\ BundleDest("files/base") \subseteq DOMAIN fs.files
    /\ BundleDest(OpenAPIBundle(opts.OpenAPI)) \subseteq DOMAIN fs.files
    /\ \A p \in BundleDest("files/base") \ BundleDest(OpenAPIBundle(opts.OpenAPI)) :
          fs.files[p] = BundleOutput("files/base", p, ctx.TemplateData)
    /\ Dockerfile \in DOMAIN fs.files

AddTidyFailed ==
    /\ cmd = "add" /\ pc \in Terminal
    /\ Len(log) > 0 /\ log[Len(log)] = Ev("tidy", FALSE)
    /\ Ev("apply:" \o opts.Module, TRUE) \in Range(log)

(* C21: a failed go mod tidy is fatal on the add path too: when the step   *)
(* fails after the module was applied, AddModule returns an error.         *)
C21_AddTidyFatal == AddTidyFailed => (pc = "Failed" /\ err # NoErr)

ContextKeys ==
    {"ProjectName", "ModulePath", "Router", "Database", "OpenAPI", "Migrations",
     "HasDocker"}

(* the Context InitProject builds from the options of the run *)
BuiltContext ==
    [Options |-> opts,
     TemplateData |->
        [k \in ContextKeys |->
            CASE k = "ProjectName" -> Str(opts.ProjectName)
              [] k = "ModulePath" -> Str(opts.ModulePath)
              [] k = "Router" -> Str(opts.Router)
              [] k = "Database" -> Str(opts.Database)
              [] k = "OpenAPI" -> Str(opts.OpenAPI)
              [] k = "Migrations" -> Str(opts.Migrations)
              [] k = "HasDocker" -> Bool(opts.Docker)]]

AfterBase == {"Database", "OpenAPI", "Docker", "ModInit", "Tidy", "Fmt"}

ContextStep ==
    /\ (cmd = "init" /\ pc = "Base") => (cmd' = "init" /\ ctx' = BuiltContext)
    /\ (cmd = "init" /\ pc \in AfterBase)
          => (cmd' = "init" /\ opts' = opts /\ ctx' = ctx /\ ctx' = BuiltContext)

(* C22: within one InitProject run the Context is built once, before the   *)
(* base overlay, from the options of the run, and no later step of the run *)
(* (no module's Apply, no post-step) changes it: what the last module sees *)
(* is what the base overlay and the first module saw.                      *)
C22_ContextImmutable == [][ContextStep]_vars

C22_Witness ==
    /\ cmd = "init" /\ pc = "Done"
    /\ Ev("apply:db", TRUE) \in Range(log)
    /\ Ev("apply:docker", TRUE) \in Range(log)
    /\ opts.Migrations = "goose"
    /\ ctx = BuiltContext

ApplySteps == {"apply:db", "apply:openapi", "apply:docker"}

(* a Context has been built and handed to a module's Apply *)
HandedToModule == cmd \in {"init", "add"} /\ Steps(log) \cap ApplySteps # {}

(* C23: whenever a Context has been handed to a module, on the init path   *)
(* and on the add path alike, each of Router, Database, OpenAPI and        *)
(* Migrations in its options holds a member of that field's domain.        *)
C23_EnumeratedInDomain ==
    HandedToModule
        => \A i \in 1..Len(EnumFields) :
              ctx.Options[EnumFields[i]] \in DomainOf(EnumFields[i])

(* the module whose Apply the step in hand invokes, or Nil *)
ApplyingModule ==
    CASE cmd = "init" /\ pc = "Database" /\ opts.Database # "none"
             -> GetModule(registry, "db", opts.Database)
      [] cmd = "init" /\ pc = "OpenAPI" /\ opts.OpenAPI # "none"
             -> GetModule(registry, "openapi", opts.OpenAPI)
      [] cmd = "init" /\ pc = "Docker" /\ opts.Docker
             -> GetModule(registry, "docker", "")
      [] cmd = "add" /\ pc = "Apply" -> mod
      [] OTHER -> Nil

HasMessage(e, msg) == \E k \in 1..Len(e) : e[k].msg = msg

WrittenByBundle(b, p, content) ==
    /\ b \in DOMAIN store
    /\ \E i \in BundleFiles(b) :
          /\ Dest(store[b][i]) = p
          /\ Output(store[b][i], ctx.TemplateData) = content

(* the step did not write p after the bundle: p is as it was before the    *)
(* step, or as the bundle wrote it                                         *)
NoPostWrite(b, p) ==
    IF p \in DOMAIN fs'.files
    THEN \/ p \in DOMAIN fs.files /\ fs'.files[p] = fs.files[p]
         \/ WrittenByBundle(b, p, fs'.files[p])
    ELSE p \notin DOMAIN fs.files

PostWritten(p, content) == p \in DOMAIN fs'.files /\ fs'.files[p] = content

(* the bundle was applied: its files outside the given paths hold its output *)
BundleFirst(b, paths) ==
    /\ b \in DOMAIN store
    /\ \A p \in BundleDest(b) \ paths :
          p \in DOMAIN fs'.files /\ fs'.files[p] = BundleOutput(b, p, ctx.TemplateData)

MigrationPaths == {GitkeepPath, InitialMigrationPath}

PostgresPostProcessing ==
    ApplyingModule = "Postgres" =>
      IF HasMessage(err', "failed to apply postgres template")
      THEN \A p \in MigrationPaths : NoPostWrite("files/db/postgres", p)
      ELSE /\ BundleFirst("files/db/postgres", MigrationPaths)
           /\ IF ctx.Options.Migrations = "goose"
              THEN \/ /\ err' = NoErr
                      /\ PostWritten(GitkeepPath, <<>>)
                      /\ PostWritten(InitialMigrationPath, MigrationSQL)
                   \/ err' # NoErr
              ELSE /\ err' = NoErr
                   /\ \A p \in MigrationPaths : NoPostWrite("files/db/postgres", p)

OpenAPIGenPostProcessing ==
    ApplyingModule = "OpenAPIGen" =>
      IF HasMessage(err', "failed to apply openapi gen template")
      THEN /\ NoPostWrite("files/openapi/gen", SpecFilePath)
           /\ NoPostWrite("files/openapi/gen", MakefilePath)
      ELSE /\ BundleFirst("files/openapi/gen", {SpecFilePath, MakefilePath})
           /\ IF ctx.Options.SpecPath # ""
              THEN \/ /\ err' = NoErr
                      /\ PostWritten(SpecFilePath, SpecContent(ctx.Options.ProjectName))
                   \/ err' # NoErr
              ELSE NoPostWrite("files/openapi/gen", SpecFilePath)

(* C24: the postgres module writes migrations/.gitkeep and                 *)
(* migrations/00001_initial.sql exactly when Migrations = goose, and the   *)
(* openapi-gen module writes api/openapi.yaml exactly when the spec path   *)
(* is not empty; each applies its bundle first, and when the bundle fails  *)
(* the module returns that failure without any post-processing write.      *)
C24_PostProcessing ==
    [][PostgresPostProcessing /\ OpenAPIGenPostProcessing]_vars

C24_Witness ==
    /\ cmd = "init" /\ pc = "Done"
    /\ opts.Database = "postgres" /\ opts.Migrations = "goose"
    /\ opts.OpenAPI = "gen" /\ opts.SpecPath # ""
    /\ Ev("apply:db", TRUE) \in Range(log)
    /\ Ev("apply:openapi", TRUE) \in Range(log)
    /\ MigrationPaths \cup {SpecFilePath} \subseteq DOMAIN fs.files
    /\ fs.files[InitialMigrationPath] = MigrationSQL
    /\ fs.files[Readme] = <<Text("postgres notes")>>

HasContext == "TemplateData" \in DOMAIN ctx

(* a second apply after a first that succeeded gives the first's result *)
BundleTwice(first, b) ==
    first.err = NoErr => ApplyModuleTemplate(b, first.fs, ctx.TemplateData) = first

BaseTwice(first) ==
    first.err = NoErr => applyTemplate("files/base", first.fs, ctx.TemplateData) = first

ModuleTwice(first, m) == first.err = NoErr => Apply(m, ctx, first.fs) = first

(* the module whose Apply has just returned nil, or Nil *)
JustApplied ==
    IF Len(log) = 0 \/ ~log[Len(log)].ok THEN Nil
    ELSE CASE cmd = "add" /\ pc = "AddTidy" -> mod
           [] cmd = "init" /\ log[Len(log)].step = "apply:db"
                  -> GetModule(registry, "db", opts.Database)
           [] cmd = "init" /\ log[Len(log)].step = "apply:openapi"
                  -> GetModule(registry, "openapi", opts.OpenAPI)
           [] cmd = "init" /\ log[Len(log)].step = "apply:docker"
                  -> GetModule(registry, "docker", "")
           [] OTHER -> Nil

(* C25: applying the same bundle, or the same module, a second time to the *)
(* destination the first apply produced, with the same Context, raises no  *)
(* error and leaves the tree as the first apply left it.  Checked for the  *)
(* module and the base bundle the run has just applied, and for every      *)
(* bundle and module applied twice to the destination of the state.        *)
C25_ApplyIdempotent ==
    HasContext =>
      /\ JustApplied # Nil => Apply(JustApplied, ctx, fs) = okResult(fs)
      /\ (cmd = "init" /\ BaseJustApplied)
            => applyTemplate("files/base", fs, ctx.TemplateData) = okResult(fs)
      /\ \A b \in DOMAIN store :
            BundleTwice(ApplyModuleTemplate(b, fs, ctx.TemplateData), b)
      /\ BaseTwice(applyTemplate("files/base", fs, ctx.TemplateData))
      /\ \A m \in Modules : ModuleTwice(Apply(m, ctx, fs), m)

C25_Witness ==
    /\ cmd = "add" /\ pc = "AddTidy" /\ JustApplied = "Postgres"
    /\ Internal \in fs.dirs
    /\ fs.files[Readme] = <<Text("postgres notes")>>
    /\ Apply("Postgres", ctx, fs) = okResult(fs)

Keys == Categories \X Names

LastWins ==
    \A k \in Keys : GetModule(registry, k[1], k[2]) = LastRegistered(calls, k[1], k[2])

(* a Register(c, n, m) step: the key holds m afterwards, every other key   *)
(* answers as before                                                       *)
RegisterFrame ==
    calls' # calls =>
      /\ Len(calls') = Len(calls) + 1
      /\ SubSeq(calls', 1, Len(calls)) = calls
      /\ GetModule(registry', calls'[Len(calls')].category, calls'[Len(calls')].name)
            = calls'[Len(calls')].module
      /\ \A k \in Keys :
            k # <<calls'[Len(calls')].category, calls'[Len(calls')].name>>
               => GetModule(registry', k[1], k[2]) = GetModule(registry, k[1], k[2])

(* C26: after any sequence of Register calls GetModule(c, n) is the module *)
(* of the most recent Register(c, n, .), nil when there was none, and a    *)
(* Register at one key leaves GetModule at every other key unchanged.      *)
C26_LastRegistrationWins == [](LastWins) /\ [][RegisterFrame]_vars

C26_Witness ==
    /\ Len(calls) = Len(NewRegistryCalls) + 2
    /\ calls[Len(calls) - 1] = Call("db", "postgres", "Mongo")
    /\ calls[Len(calls)] = Call("db", "postgres", "Docker")
    /\ GetModule(registry, "db", "postgres") = "Docker"
    /\ GetModule(registry, "db", "mongo") = "Mongo"
    /\ GetModule(registry, "docker", "") = "Docker"

LookupSteps == {"lookup:db", "lookup:openapi", "lookup:docker"}

ValidationPassed == cmd = "init" /\ Ev("validate", TRUE) \in Range(log)

(* C27: with the registry NewRegistry builds, every lookup an InitProject  *)
(* run makes after its options passed validation finds a module: each      *)
(* selected capability of accepted options is registered, no lookup of an  *)
(* init run fails, and no init run ends in module-not-found.               *)
C27_DefaultRegistryCovers ==
    /\ ValidationPassed =>
          \A k \in 1..Len(ModuleCategories) :
             Selected(opts, ModuleCategories[k])
                => GetModule(registry, ModuleCategories[k],
                             SelectedName(opts, ModuleCategories[k])) # Nil
    /\ cmd = "init" =>
          /\ \A i \in 1..Len(log) : log[i].step \in LookupSteps => log[i].ok
          /\ ~HasMessage(err, "module not found")

C27_Witness ==
    /\ cmd = "init" /\ pc = "Done"
    /\ calls = NewRegistryCalls
    /\ opts.Database = "mongo" /\ opts.OpenAPI = "manual" /\ opts.Docker
    /\ {Ev("lookup:db", TRUE), Ev("lookup:openapi", TRUE), Ev("lookup:docker", TRUE)}
          \subseteq Range(log)

OtherFieldsValid ==
    /\ opts.Router \in DomainOf("Router")
    /\ opts.OpenAPI \in DomainOf("OpenAPI")

GooseWithoutPostgres ==
    /\ cmd = "init"
    /\ opts.Migrations = "goose"
    /\ opts.Database \in {"none", "mongo"}

MigrationFilesPresent == MigrationPaths \cap DOMAIN fs.files # {}

(* C28: goose together with Database none or mongo is accepted by          *)
(* validation (the run's validation step succeeds when the other fields    *)
(* are valid, and no such run fails on the combination), yet such a run    *)
(* never has a migration file in the destination: in an init run migration *)
(* files are present only after the postgres module was applied with goose *)
C28_GooseNeedsPostgres ==
    /\ (GooseWithoutPostgres /\ OtherFieldsValid /\ Len(log) > 0)
          => /\ log[1] = Ev("validate", TRUE)
             /\ ~IsValidationError(err)
    /\ GooseWithoutPostgres => ~MigrationFilesPresent
    /\ (cmd = "init" /\ MigrationFilesPresent)
          => /\ opts.Migrations = "goose"
             /\ "apply:db" \in Steps(log)
             /\ GetModule(registry, "db", opts.Database) = "Postgres"

C28_Witness ==
    /\ GooseWithoutPostgres
    /\ opts.Database = "mongo"
    /\ pc = "Done" /\ err = NoErr
    /\ Ev("apply:db", TRUE) \in Range(log)
    /\ ~MigrationFilesPresent
    /\ MigrationsDir \notin fs.dirs

(* the module path of the first module line of go.mod *)
GoModModulePath(f) ==
    Join(TrimSpace(SubSeq(TrimSpace(FirstModuleLine(f)), 3,
                          Len(TrimSpace(FirstModuleLine(f))))))

AddHandedToModule ==
    cmd = "add" /\ ("apply:" \o opts.Module) \in Steps(log)

(* the variable AddModule's switch adds to the mapping *)
SelectedVariable ==
    CASE opts.Module = "db" -> ("Database" :> Str(opts.Type))
      [] opts.Module = "openapi" -> ("OpenAPI" :> Str(opts.Mode))
      [] opts.Module = "docker" -> ("HasDocker" :> Bool(TRUE))

AddContextCarries(spec) ==
    /\ ctx.Options =
          [ProjectName |-> "", ModulePath |-> GoModModulePath(fs0), Router |-> "",
           Database |-> IF opts.Module = "db" THEN opts.Type ELSE "",
           OpenAPI |-> IF opts.Module = "openapi" THEN opts.Mode ELSE "",
           SpecPath |-> spec,
           Docker |-> (opts.Module = "docker"),
           Migrations |-> "", Force |-> FALSE]
    /\ ctx.TemplateData =
          SelectedVariable @@ ("ModulePath" :> Str(GoModModulePath(fs0)))

NoMigrationWritten ==
    \A p \in MigrationPaths :
       IF p \in DOMAIN fs0.files
       THEN p \in DOMAIN fs.files /\ fs.files[p] = fs0.files[p]
       ELSE p \notin DOMAIN fs.files

(* C29: on the add path the Context handed to the module holds the module  *)
(* path read from go.mod and the values of the selected capability only:   *)
(* Database for db, OpenAPI and the spec path for openapi, Docker for      *)
(* docker; its mapping holds ModulePath and the one selected variable;     *)
(* ProjectName, Router and Migrations are empty.  No add run, add db       *)
(* postgres included, writes a migration file.                             *)
C29_AddContext ==
    /\ AddHandedToModule
          => AddContextCarries(IF opts.Module = "openapi" THEN opts.Spec ELSE "")
    /\ cmd = "add" => NoMigrationWritten

(* the Context of the add path holds the module path and one capability    *)
(* value, the spec path empty like every other field                       *)
C29_Original ==
    /\ AddHandedToModule => AddContextCarries("")
    /\ cmd = "add" => NoMigrationWritten

C29_Witness ==
    /\ AddHandedToModule
    /\ opts.Module = "db" /\ opts.Type = "postgres" /\ mod = "Postgres"
    /\ pc = "Done"
    /\ ctx.Options.Migrations = "" /\ ctx.Options.Database = "postgres"
    /\ DOMAIN ctx.TemplateData = {"ModulePath", "Database"}
    /\ MigrationPaths \cap DOMAIN fs.files = {}

(* the bundles to apply: those of the store and one the store lacks *)
BundleNames == DOMAIN store \cup {"files/absent"}

(* the destinations to apply to: the current one and the one the command   *)
(* found (absent, a file, an empty directory or a project)                 *)
Destinations == {fs, fs0}

(* the mapping of the run's Context, or the empty mapping before it exists *)
Mappings == IF HasContext THEN {ctx.TemplateData} ELSE {NoData}

SameOutcome(a, m) ==
    /\ a.fs = m.fs
    /\ (a.err = NoErr) = (m.err = NoErr)
    /\ a.err = m.err

(* C30: Engine.applyTemplate and modules.ApplyModuleTemplate are           *)
(* equivalent: for every bundle, destination and variable mapping they     *)
(* leave the same destination tree and return the same outcome, nil or the *)
(* same error naming the same file.                                        *)
C30_AppliersEquivalent ==
    \A b \in BundleNames, f \in Destinations, data \in Mappings :
       SameOutcome(applyTemplate(b, f, data), ApplyModuleTemplate(b, f, data))

C30_Witness ==
    /\ BaseRenderFails /\ BaseFailed
    /\ Gitignore \in DOMAIN fs.files
    /\ ApplyModuleTemplate("files/base", EmptyDirFS, ctx.TemplateData).fs = fs
    /\ RenderErrorAt(ApplyModuleTemplate("files/base", EmptyDirFS, ctx.TemplateData).err,
                     ReadmeTmpl)
    /\ RenderErrorAt(err, ReadmeTmpl)
====
